---------------------------- MODULE Spec2Model ----------------------------
(***************************************************************************)
(* Verification model of the wazuh-agent communication and event-queue     *)
(* core.                                                                   *)
(*                                                                         *)
(*   Part I   persistent event queue and its dispatcher                    *)
(*            (src/poc/curl/event_queue_monitor.hpp, db/*_wrapper.hpp,     *)
(*             client_main.cpp)                               -- Spec      *)
(*            the monitor's destructor                      -- SpecDestroy *)
(*            updateEventStatus of the two wrappers          -- SpecUpdate *)
(*   Part II  the fetch of pending events as a function of the store       *)
(*                                                            -- SpecFetch *)
(*   Part III the stateful / stateless / command request loops             *)
(*            (agent.cpp, http_client.cpp)                    -- SpecAgent *)
(*   Part IV  the session: token loop and TryReAuthenticate                *)
(*            (communicator.cpp)  -- SpecAuth, SpecRefresh, SpecReAuth     *)
(*   Part V   functions checked on their own: the body built by            *)
(*            GetMessagesFromQueue                            -- SpecFrame *)
(*            PushCommandsToQueue                          -- SpecCommands *)
(*            HttpClient::CreateHttpRequest                 -- SpecRequest *)
(*            HttpClient::PerformHttpRequest and                           *)
(*            AuthenticateWithUuidAndKey                    -- SpecPerform *)
(*            the command-processing task (command_handler.hpp)            *)
(*                                                      -- SpecCommandTask *)
(*            SignalDispatcher (signal_dispatcher.cpp)      -- SpecSignals *)
(*   Delivery after failures                                   -- SpecHeal *)
(*   All the tasks of Agent::Run and the stop              -- SpecShutdown *)
(***************************************************************************)
EXTENDS Integers, Sequences, FiniteSets, TLC

VARIABLES
    \* ---- Part I: event queue (poc/curl) ----
    backend,        \* QueueDB template argument: "rocksdb" or "sqlite"
    db,             \* the on-disk store: key/rowid -> Event (+ history stamp)
    sqliteSeq,      \* sqlite_sequence of table events (AUTOINCREMENT)
    event,          \* client_main.cpp: static int event
    running,        \* the client process is up (EventQueueMonitor constructed)
    pc,             \* position of the dispatcher thread in its loop
    elapsed,        \* seconds since last_dispatch_time (saturating at T)
    current_time,   \* the sample of line 69, as seconds since last_dispatch_time
    eventDispatchThreads, \* std::vector<std::thread>: the sink workers
    fetched,        \* history: the dispatcher has fetched since construction
    writes,         \* history: number of insertEvent calls ever made
    crashes,        \* history: number of process deaths
    recovered,      \* history: ids the last startup recovery reset to pending
    lastSink,       \* history: outcome of a sink worker ended since the last trigger test
    \* ---- Part II: fetch as a function ----
    batch,          \* result of the last fetchPendingEvents call
    \* ---- Part III: agent pipelines (agent.cpp, http_client.cpp) ----
    m_maxBatchingSize,  \* Agent::m_maxBatchingSize
    m_keepRunning,      \* Communicator::m_keepRunning
    queue,          \* MultiTypeQueue: lane -> FIFO of messages
    pushed,         \* history: number of messages ever pushed (message ids)
    ppc,            \* position of each Co_PerformHttpRequest coroutine
    reqBody,        \* reqParams.Body of the current iteration
    reqToken,       \* reqParams.Token of the current iteration
    res,            \* res.result() of the current iteration (0: none read)
    timerSleep,     \* which delay the iteration's final sleep uses
    lastPop,        \* history: the popN call made in the current iteration
    staleBegin,     \* history: the iteration began with an expired token
    called,         \* history: what the current iteration has called so far
    \* ---- Part IV: session (communicator.cpp) ----
    now,            \* system clock, seconds
    m_token,        \* *m_token: "" or the token held
    m_tokenExpTimeInSeconds,
    m_tokenExpTimer, \* the timer object exists
    timerDeadline,  \* m_tokenExpTimer expiry, milliseconds
    timerAborted,   \* the pending async_wait was cancelled
    authPc,         \* position of WaitForTokenExpirationAndAuthenticate
    authResult,     \* result of the last SendAuthenticationRequest
    hasSucceeded,   \* history: an authentication has succeeded
    m_reAuthMutex,  \* owner of m_reAuthMutex, or 0
    m_isReAuthenticating,
    rpc,            \* position of each TryReAuthenticate caller
    blockedBy,      \* history: who held the mutex when the call was refused
    acted,          \* history: the current call has cancelled the timer
    \* Part V: the functions checked on their own
    messages,       \* GetMessagesFromQueue: the drained messages
    getMetadataInfo,\* GetMessagesFromQueue: the global-metadata provider
    output,         \* GetMessagesFromQueue: the body it returns
    commands,       \* PushCommandsToQueue: the commands array of the response
    pushes,         \* history: the vectors handed to MultiTypeQueue::push
    params,         \* CreateHttpRequest: the HttpRequestParams
    req,            \* CreateHttpRequest: the request it returns
    fault,          \* PerformHttpRequest: the call that throws, or "none"
    reply,          \* PerformHttpRequest: what the manager answers
    perfRes,        \* PerformHttpRequest: how the call ends
    authRet,        \* AuthenticateWithUuidAndKey: what it returns
    \* the manager and what it has received
    reachable,      \* the manager accepts connections and answers 200
    delivered,      \* history: ids of the messages sent in a request answered 200
    \* the command-processing task (command_handler.hpp)
    cpc,            \* position of ProcessCommandsFromQueue
    cmd,            \* the optional returned by GetCommand()
    peeked,         \* history: id of the lane message GetCommand() read, or 0
    getNextCalls,   \* history: getNext calls made by the last GetCommandFromQueue
    dispatched,     \* history: ids of the lane messages passed to DispatchMessage
    \* SignalDispatcher (signal_dispatcher.cpp)
    signals,        \* SignalDispatcher::signals: event -> connected slots
    registered,     \* history: the events of the RegisterListener calls, in call
                    \* order; the slot of the i-th call is slot i
    notified,       \* the event of the last Notify call, or "none"
    invoked,        \* history: the slots the last Notify call ran, in order
    \* ---- ~EventQueueMonitor (event_queue_monitor.hpp) ----
    keepDbRunning,  \* the dispatcher's stop flag
    dtor,           \* position of the thread that runs the destructor
    joinIdx,        \* the destructor's loop: index of the worker it is at
    joinView,       \* the worker vector as the destructor's loop began on it
    \* ---- updateEventStatus of the wrappers, on its own ----
    lastUpdate,     \* history: the last updateEventStatus call
    \* ---- configuration file ----
    max_batching_size   \* agent.max_batching_size as configured; 0: absent

qvars == <<backend, db, sqliteSeq, event, running, pc, elapsed, current_time,
           eventDispatchThreads, fetched, writes, crashes, recovered, lastSink>>
fvars == <<batch>>
avars == <<m_maxBatchingSize, m_keepRunning, queue, pushed, ppc, reqBody, reqToken,
           res, timerSleep, lastPop, staleBegin, called>>
tvars == <<now, m_token, m_tokenExpTimeInSeconds, m_tokenExpTimer, timerDeadline, timerAborted,
           authPc, authResult, hasSucceeded, m_reAuthMutex, m_isReAuthenticating,
           rpc, blockedBy, acted>>
mvars == <<messages, getMetadataInfo, output>>
cvars == <<commands, pushes>>
hvars == <<params, req>>
svars == <<fault, reply, perfRes, authRet>>
evars == <<reachable, delivered>>
kvars == <<cpc, cmd, peeked, getNextCalls, dispatched>>
lvars == <<signals, registered, notified, invoked>>
dvars == <<keepDbRunning, dtor, joinIdx, joinView>>
xvars == <<lastUpdate>>
gvars == <<max_batching_size>>
wvars == <<kvars, lvars, dvars, xvars, gvars>>
uvars == <<mvars, cvars, hvars, svars, evars, wvars>>
vars == <<qvars, fvars, avars, tvars, uvars>>
notQ == <<fvars, avars, tvars, uvars>>
notF == <<avars, tvars, uvars>>
notA == <<qvars, fvars, uvars>>
notD == <<fvars, avars, tvars, mvars, cvars, hvars, svars, evars, kvars, lvars, xvars, gvars>>

(***************************************************************************)
(* Bounds of the model.                                                    *)
(***************************************************************************)
MaxEvent == 2      \* createevent inserts per process run
MaxWrites == 3     \* insertEvent calls over all runs
MaxCrashes == 1    \* process deaths
MaxUpdateId == 3   \* SpecUpdate: ids 0 .. MaxUpdateId - 1 may be stored or listed
MaxStoreId == 11   \* SpecFetch: stored ids are 0 .. MaxStoreId - 1
MaxMsgs == 3       \* messages pushed to the MultiTypeQueue
MaxTime == 5       \* last clock value of the session model
MaxFrameMsgs == 2  \* SpecFrame: messages drained into one body
MaxDataLen == 1    \* SpecFrame: characters of a message's data
MaxCommands == 2   \* SpecCommands: elements of a commands array
NumCallers == 2    \* threads calling TryReAuthenticate
MaxLiveStore == 4  \* SpecLive: events stored when the dispatcher starts
MaxDispatches == 2 \* DispatchMessage calls of the command-processing task
MaxListeners == 4  \* RegisterListener calls

(***************************************************************************)
(* Program constants.                                                      *)
(***************************************************************************)
N == 10            \* events dispatched at once
T == 5             \* time trigger, seconds

Backends == {"rocksdb", "sqlite"}

\* client_main.cpp:47-48: even counter values carry the json event, odd ones
\* the xml event.
EventData(id) == IF id % 2 = 0 THEN "{key: value}" ELSE "<event><key>value</key></event>"
EventType(id) == IF id % 2 = 0 THEN "json" ELSE "xml"

(***************************************************************************)
(* Helpers on sets and sequences.                                          *)
(***************************************************************************)
RECURSIVE SetToSeq(_)
SetToSeq(S) == IF S = {} THEN <<>>
               ELSE LET x == CHOOSE y \in S : TRUE
                    IN  <<x>> \o SetToSeq(S \ {x})

Range(s) == {s[i] : i \in DOMAIN s}

MinOf(a, b) == IF a < b THEN a ELSE b

(***************************************************************************)
(* RocksDB keys: std::to_string(id), ordered by the default bytewise       *)
(* comparator of the iterator.                                             *)
(***************************************************************************)
RECURSIVE to_string(_)
to_string(n) == IF n < 10 THEN <<n>> ELSE to_string(n \div 10) \o <<n % 10>>

RECURSIVE BytewiseLess(_, _)
BytewiseLess(a, b) ==
    IF a = <<>> THEN b # <<>>
    ELSE IF b = <<>> THEN FALSE
    ELSE IF Head(a) # Head(b) THEN Head(a) < Head(b)
    ELSE BytewiseLess(Tail(a), Tail(b))

\* The order in which a scan visits the stored keys.
RocksIterOrder(d) ==
    SortSeq(SetToSeq(DOMAIN d), LAMBDA a, b : BytewiseLess(to_string(a), to_string(b)))

SqliteScanOrder(d) ==
    SortSeq(SetToSeq(DOMAIN d), LAMBDA a, b : a < b)

\* The loop of RocksDBWrapper::fetchPendingEvents: visit the keys in iterator
\* order while events.size() < limit, keep the pending ones.
RECURSIVE RocksFetchLoop(_, _, _, _)
RocksFetchLoop(d, order, events, limit) ==
    IF order = <<>> \/ ~(Len(events) < limit) THEN events
    ELSE LET e == d[Head(order)]
         IN  RocksFetchLoop(d, Tail(order),
                 IF e.status = "pending"
                 THEN Append(events, [id |-> e.id, event_data |-> e.event_data,
                                      event_type |-> e.event_type, status |-> e.status])
                 ELSE events,
                 limit)

RocksDBWrapper_fetchPendingEvents(d, limit) ==
    RocksFetchLoop(d, RocksIterOrder(d), <<>>, limit)

\* SELECT id, event_data FROM events WHERE status = 'pending' LIMIT ?
RECURSIVE SqliteSelect(_, _, _, _)
SqliteSelect(d, order, events, limit) ==
    IF order = <<>> \/ ~(Len(events) < limit) THEN events
    ELSE LET e == d[Head(order)]
         IN  SqliteSelect(d, Tail(order),
                 IF e.status = "pending"
                 THEN Append(events, [id |-> e.id, event_data |-> e.event_data,
                                      event_type |-> "", status |-> "pending"])
                 ELSE events,
                 limit)

SQLiteWrapper_fetchPendingEvents(d, limit) ==
    SqliteSelect(d, SqliteScanOrder(d), <<>>, limit)

\* Variant of the fetch whose loop test is events.size() <= limit.
fetchPendingEvents_OffByOne(d, limit) ==
    IF backend = "rocksdb" THEN RocksDBWrapper_fetchPendingEvents(d, limit + 1)
    ELSE SQLiteWrapper_fetchPendingEvents(d, limit + 1)

fetchPendingEvents(d, limit) ==
    IF backend = "rocksdb" THEN RocksDBWrapper_fetchPendingEvents(d, limit)
    ELSE SQLiteWrapper_fetchPendingEvents(d, limit)

Ids(events) == {events[i].id : i \in DOMAIN events}

(***************************************************************************)
(* Store operations.                                                       *)
(***************************************************************************)
\* RocksDBWrapper::insertEvent: Put(to_string(id), serialize(Event{id, data,
\* type, "pending"})); Put replaces the value of an existing key.
RocksDBWrapper_insertEvent(d, id, data, type, stamp) ==
    [k \in DOMAIN d \cup {id} |->
        IF k = id
        THEN [id |-> id, event_data |-> data, event_type |-> type,
              status |-> "pending", seq |-> stamp]
        ELSE d[k]]

\* SQLiteWrapper::insertEvent: INSERT INTO events (event_data, event_type);
\* the id argument is not bound, the row gets the next AUTOINCREMENT rowid.
SQLiteWrapper_insertEvent(d, rowid, data, type, stamp) ==
    [k \in DOMAIN d \cup {rowid} |->
        IF k = rowid
        THEN [id |-> rowid, event_data |-> data, event_type |-> type,
              status |-> "pending", seq |-> stamp]
        ELSE d[k]]

\* updateEventStatus: for every listed id, read the event, set its status,
\* write it back.  The status is the one the caller passes
\* (event_queue_monitor.hpp:95,99).
updateEventStatus(d, ids, status) ==
    [k \in DOMAIN d |-> IF k \in ids THEN [d[k] EXCEPT !.status = status] ELSE d[k]]

\* updateEntriesStatus(from, to): every event whose status is `from` gets `to`.
updateEntriesStatus(d, from, to) ==
    [k \in DOMAIN d |-> IF d[k].status = from THEN [d[k] EXCEPT !.status = to] ELSE d[k]]

\* deleteEntriesWithStatus(status)
deleteEntriesWithStatus(d, status) ==
    [k \in {j \in DOMAIN d : d[j].status # status} |-> d[k]]

getPendingEventCount(d) == Cardinality({k \in DOMAIN d : d[k].status = "pending"})

\* fetchAndMarkPendingEvents(limit): the events fetchPendingEvents selects,
\* each marked processing in the store.
fetchAndMarkPendingEvents_events(d, limit) == fetchPendingEvents(d, limit)
fetchAndMarkPendingEvents_store(d, limit) ==
    updateEventStatus(d, Ids(fetchPendingEvents(d, limit)), "processing")

\* RocksDBWrapper::updateEventStatus(event_ids) (rocksdb_wrapper.hpp:55-64):
\* for every id in turn, Get the value, deserialize it, set the status to
\* dispatched, Put it back.  Get of a key that is not stored leaves value
\* empty and json::parse("") throws: the call ends there with an exception.
RECURSIVE RocksDBWrapper_updateEventStatus(_, _)
RocksDBWrapper_updateEventStatus(d, event_ids) ==
    IF event_ids = <<>> THEN [store |-> d, error |-> FALSE]
    ELSE IF Head(event_ids) \notin DOMAIN d THEN [store |-> d, error |-> TRUE]
    ELSE RocksDBWrapper_updateEventStatus(
             [d EXCEPT ![Head(event_ids)].status = "dispatched"], Tail(event_ids))

\* SQLiteWrapper::updateEventStatus(event_ids) (sqlite_wrapper.hpp:67-78):
\* for every id in turn, UPDATE events SET status = 'dispatched' WHERE id = ?;
\* a statement that matches no row changes nothing.
RECURSIVE SQLiteWrapper_updateEventStatus(_, _)
SQLiteWrapper_updateEventStatus(d, event_ids) ==
    IF event_ids = <<>> THEN [store |-> d, error |-> FALSE]
    ELSE SQLiteWrapper_updateEventStatus(
             IF Head(event_ids) \in DOMAIN d
             THEN [d EXCEPT ![Head(event_ids)].status = "dispatched"]
             ELSE d,
             Tail(event_ids))

(***************************************************************************)
(* Part I: actions.                                                        *)
(***************************************************************************)
Statuses == {"pending", "processing", "dispatched"}

\* No sink worker has ended since the last trigger test.
NoSink == [outcome |-> "none", ids |-> {}]

InitQ ==
    /\ backend \in Backends
    /\ db = <<>>
    /\ sqliteSeq = 0
    /\ event = 0
    /\ running = TRUE
    /\ pc = "gc"
    /\ elapsed = 0
    /\ current_time = 0
    /\ eventDispatchThreads = <<>>
    /\ fetched = FALSE
    /\ writes = 0
    /\ crashes = 0
    /\ recovered = {}
    /\ lastSink = NoSink

\* client_main.cpp "createevent": one insertEvent(event++, data, type).
CreateEvent ==
    /\ UNCHANGED notQ
    /\ running
    /\ event < MaxEvent
    /\ writes < MaxWrites
    /\ IF backend = "rocksdb"
       THEN /\ db' = RocksDBWrapper_insertEvent(db, event, EventData(event),
                                                EventType(event), writes + 1)
            /\ UNCHANGED sqliteSeq
       ELSE /\ db' = SQLiteWrapper_insertEvent(db, sqliteSeq + 1, EventData(event),
                                               EventType(event), writes + 1)
            /\ sqliteSeq' = sqliteSeq + 1
    /\ event' = event + 1
    /\ writes' = writes + 1
    /\ UNCHANGED <<backend, running, pc, elapsed, current_time,
                   eventDispatchThreads, fetched, crashes, recovered, lastSink>>

\* Lines 49-51: loop test, then deleteEntriesWithStatus("dispatched").
DeleteDispatched ==
    /\ UNCHANGED notQ
    /\ running
    /\ pc = "gc"
    /\ keepDbRunning
    /\ db' = deleteEntriesWithStatus(db, "dispatched")
    /\ pc' = "reap"
    /\ UNCHANGED <<backend, sqliteSeq, event, running, elapsed, current_time,
                   eventDispatchThreads, fetched, writes, crashes, recovered, lastSink>>

\* Variant of ReapThreads that does not wait for the workers still running.
ReapThreads_NoJoin ==
    /\ UNCHANGED notQ
    /\ running
    /\ pc = "reap"
    /\ eventDispatchThreads' =
         SelectSeq(eventDispatchThreads, LAMBDA t : t.state = "running")
    /\ pc' = "check"
    /\ UNCHANGED <<backend, db, sqliteSeq, event, running, elapsed, current_time,
                   fetched, writes, crashes, recovered, lastSink>>

\* Lines 53-67: every joinable thread of the vector is joined (which waits
\* for its end) and is removed; a thread the destructor has joined is not
\* joinable and stays.
ReapThreads ==
    /\ UNCHANGED notQ
    /\ running
    /\ pc = "reap"
    /\ \A i \in DOMAIN eventDispatchThreads :
         eventDispatchThreads[i].state \in {"done", "joined"}
    /\ eventDispatchThreads' =
         SelectSeq(eventDispatchThreads, LAMBDA t : t.state = "joined")
    /\ pc' = "check"
    /\ UNCHANGED <<backend, db, sqliteSeq, event, running, elapsed, current_time,
                   fetched, writes, crashes, recovered, lastSink>>

\* Variant of CheckTrigger that batches on size only.
CheckTrigger_SizeOnly ==
    /\ UNCHANGED notQ
    /\ running
    /\ pc = "check"
    /\ current_time' = elapsed
    /\ IF getPendingEventCount(db) < N
       THEN pc' = "sleep"
       ELSE pc' = "fetch"
    /\ UNCHANGED <<backend, db, sqliteSeq, event, running, elapsed,
                   eventDispatchThreads, fetched, writes, crashes, recovered>>
    /\ lastSink' = [lastSink EXCEPT !.outcome = "none"]

\* Variant of CheckTrigger that fetches in every tick.
CheckTrigger_NoWait ==
    /\ UNCHANGED notQ
    /\ running
    /\ pc = "check"
    /\ current_time' = elapsed
    /\ pc' = "fetch"
    /\ UNCHANGED <<backend, db, sqliteSeq, event, running, elapsed,
                   eventDispatchThreads, fetched, writes, crashes, recovered>>
    /\ lastSink' = [lastSink EXCEPT !.outcome = "none"]

\* Lines 69-75: sample the clock, test the batch trigger.
CheckTrigger ==
    /\ UNCHANGED notQ
    /\ running
    /\ pc = "check"
    /\ current_time' = elapsed
    /\ IF getPendingEventCount(db) < N /\ elapsed < T
       THEN pc' = "sleep"
       ELSE pc' = "fetch"
    /\ UNCHANGED <<backend, db, sqliteSeq, event, running, elapsed,
                   eventDispatchThreads, fetched, writes, crashes, recovered>>
    /\ lastSink' = [lastSink EXCEPT !.outcome = "none"]

\* Line 73: sleep_for(1 s), then continue.
Sleep ==
    /\ UNCHANGED notQ
    /\ running
    /\ pc = "sleep"
    /\ elapsed' = MinOf(elapsed + 1, T)
    /\ pc' = "gc"
    /\ UNCHANGED <<backend, db, sqliteSeq, event, running, current_time,
                   eventDispatchThreads, fetched, writes, crashes, recovered, lastSink>>

\* Lines 77-104: fetch and mark a batch; if it is not empty, build the ids
\* and the data and start a sink worker; last_dispatch_time = current_time.
SinkData(events) ==
    [i \in 1 .. 2 * Len(events) |->
        IF i % 2 = 1 THEN events[(i + 1) \div 2].event_data ELSE "\n"]

\* Variant of FetchAndDispatch that starts a worker for an empty fetch too.
FetchAndDispatch_AlwaysSpawn ==
    /\ UNCHANGED notQ
    /\ running
    /\ pc = "fetch"
    /\ LET pending_events == fetchAndMarkPendingEvents_events(db, N)
       IN  /\ db' = fetchAndMarkPendingEvents_store(db, N)
           /\ eventDispatchThreads' =
                Append(eventDispatchThreads,
                       [event_ids |-> [i \in DOMAIN pending_events |-> pending_events[i].id],
                        event_data |-> SinkData(pending_events),
                        state |-> "running"])
    /\ fetched' = TRUE
    /\ elapsed' = elapsed - current_time
    /\ pc' = "gc"
    /\ UNCHANGED <<backend, sqliteSeq, event, running, current_time, writes, crashes, recovered, lastSink>>

FetchAndDispatch ==
    /\ UNCHANGED notQ
    /\ running
    /\ pc = "fetch"
    /\ LET pending_events == fetchAndMarkPendingEvents_events(db, N)
       IN  /\ db' = fetchAndMarkPendingEvents_store(db, N)
           /\ eventDispatchThreads' =
                IF pending_events # <<>>
                THEN Append(eventDispatchThreads,
                            [event_ids |-> [i \in DOMAIN pending_events |-> pending_events[i].id],
                             event_data |-> SinkData(pending_events),
                             state |-> "running"])
                ELSE eventDispatchThreads
    /\ fetched' = TRUE
    /\ elapsed' = elapsed - current_time
    /\ pc' = "gc"
    /\ UNCHANGED <<backend, sqliteSeq, event, running, current_time, writes, crashes, recovered, lastSink>>

\* Variant of SinkWorker that leaves the events of a refused batch as they are.
SinkWorker_NoRevert(i, ok) ==
    /\ UNCHANGED notQ
    /\ running
    /\ i \in DOMAIN eventDispatchThreads
    /\ eventDispatchThreads[i].state = "running"
    /\ db' = IF ok
             THEN updateEventStatus(db, Range(eventDispatchThreads[i].event_ids), "dispatched")
             ELSE db
    /\ eventDispatchThreads' = [eventDispatchThreads EXCEPT ![i].state = "done"]
    /\ UNCHANGED <<backend, sqliteSeq, event, running, pc, elapsed, current_time,
                   fetched, writes, crashes, recovered>>
    /\ lastSink' = [outcome |-> IF ok THEN "ok" ELSE "failed",
                    ids |-> Range(eventDispatchThreads[i].event_ids)]

\* Lines 91-101: the sink worker: onEvent(event_data) answers ok, then
\* updateEventStatus(event_ids, ok ? "dispatched" : "pending").
SinkWorker(i, ok) ==
    /\ UNCHANGED notQ
    /\ running
    /\ i \in DOMAIN eventDispatchThreads
    /\ eventDispatchThreads[i].state = "running"
    /\ db' = updateEventStatus(db, Range(eventDispatchThreads[i].event_ids),
                               IF ok THEN "dispatched" ELSE "pending")
    /\ eventDispatchThreads' = [eventDispatchThreads EXCEPT ![i].state = "done"]
    /\ UNCHANGED <<backend, sqliteSeq, event, running, pc, elapsed, current_time,
                   fetched, writes, crashes, recovered>>
    /\ lastSink' = [outcome |-> IF ok THEN "ok" ELSE "failed",
                    ids |-> Range(eventDispatchThreads[i].event_ids)]

\* Wall-clock time passes.
Tick ==
    /\ UNCHANGED notQ
    /\ running
    /\ elapsed < T
    /\ elapsed' = elapsed + 1
    /\ UNCHANGED <<backend, db, sqliteSeq, event, running, pc, current_time,
                   eventDispatchThreads, fetched, writes, crashes, recovered, lastSink>>

\* The process dies (kill, power loss): its threads and its memory are gone,
\* the store stays on disk.
Crash ==
    /\ UNCHANGED notQ
    /\ running
    /\ crashes < MaxCrashes
    /\ running' = FALSE
    /\ crashes' = crashes + 1
    /\ eventDispatchThreads' = <<>>
    /\ pc' = "gc"
    /\ elapsed' = 0
    /\ current_time' = 0
    /\ UNCHANGED <<backend, db, sqliteSeq, event, fetched, writes, recovered, lastSink>>

\* Variant of the constructor without the recovery step.
EventQueueMonitor_NoRecovery ==
    /\ UNCHANGED notQ
    /\ ~running
    /\ db' = db
    /\ recovered' = {k \in DOMAIN db : db[k].status = "processing"}
    /\ event' = 0
    /\ running' = TRUE
    /\ fetched' = FALSE
    /\ pc' = "gc"
    /\ elapsed' = 0
    /\ current_time' = 0
    /\ eventDispatchThreads' = <<>>
    /\ UNCHANGED <<backend, sqliteSeq, writes, crashes>>
    /\ lastSink' = NoSink

\* Process start: static int event = 0; EventQueueMonitor's constructor:
\* createTable(), updateEntriesStatus("processing", "pending"), start of the
\* dispatcher thread.
EventQueueMonitor ==
    /\ UNCHANGED notQ
    /\ ~running
    /\ db' = updateEntriesStatus(db, "processing", "pending")
    /\ recovered' = {k \in DOMAIN db : db[k].status = "processing"}
    /\ event' = 0
    /\ running' = TRUE
    /\ fetched' = FALSE
    /\ pc' = "gc"
    /\ elapsed' = 0
    /\ current_time' = 0
    /\ eventDispatchThreads' = <<>>
    /\ UNCHANGED <<backend, sqliteSeq, writes, crashes>>
    /\ lastSink' = NoSink

(***************************************************************************)
(* ~EventQueueMonitor, run by the thread that owns the monitor, and the    *)
(* dispatcher's way out of its loop.                                       *)
(***************************************************************************)
IdleDestructor ==
    /\ keepDbRunning = TRUE
    /\ dtor = "idle"
    /\ joinIdx = 1
    /\ joinView = <<>>

\* The elements of the worker vector, by the batch each was started with.
ThreadIds(threads) == [i \in DOMAIN threads |-> threads[i].event_ids]

\* Line 49: the loop test finds the flag cleared; dispatcher() returns.
DispatcherExit ==
    /\ running
    /\ pc = "gc"
    /\ ~keepDbRunning
    /\ pc' = "exited"
    /\ UNCHANGED <<backend, db, sqliteSeq, event, running, elapsed, current_time,
                   eventDispatchThreads, fetched, writes, crashes, recovered, lastSink>>
    /\ UNCHANGED <<notD, dvars>>

\* Lines 27-28: keepDbRunning.store(false); the range-for over
\* eventDispatchThreads takes its begin and end.
Destroy ==
    /\ running
    /\ dtor = "idle"
    /\ keepDbRunning' = FALSE
    /\ dtor' = "joinWorkers"
    /\ joinIdx' = 1
    /\ joinView' = ThreadIds(eventDispatchThreads)
    /\ UNCHANGED <<qvars, notD>>

\* Lines 28-34: one turn of the loop on a vector nobody changed under it: a
\* joinable thread is joined (which waits for its end), the end of the range
\* leads to line 35.
JoinWorker ==
    /\ running
    /\ dtor = "joinWorkers"
    /\ ThreadIds(eventDispatchThreads) = joinView
    /\ IF joinIdx > Len(eventDispatchThreads)
       THEN /\ dtor' = "joinDispatcher"
            /\ UNCHANGED <<joinIdx, eventDispatchThreads>>
       ELSE /\ eventDispatchThreads[joinIdx].state \in {"done", "joined"}
            /\ eventDispatchThreads' =
                 [eventDispatchThreads EXCEPT ![joinIdx].state = "joined"]
            /\ joinIdx' = joinIdx + 1
            /\ UNCHANGED dtor
    /\ UNCHANGED <<backend, db, sqliteSeq, event, running, pc, elapsed, current_time,
                   fetched, writes, crashes, recovered, lastSink>>
    /\ UNCHANGED <<keepDbRunning, joinView, notD>>

\* Lines 28-34 after the dispatcher erased from or emplaced into the vector
\* while the loop was on it: the loop's iterators are invalid and the
\* behaviour is undefined.  Outcomes: the loop ends as if the range were
\* exhausted, or the process dies.
JoinWorker_Invalidated ==
    /\ running
    /\ dtor = "joinWorkers"
    /\ ThreadIds(eventDispatchThreads) # joinView
    /\ \/ dtor' = "joinDispatcher" /\ UNCHANGED running
       \/ dtor' = "terminated" /\ running' = FALSE
    /\ UNCHANGED <<backend, db, sqliteSeq, event, pc, elapsed, current_time,
                   eventDispatchThreads, fetched, writes, crashes, recovered, lastSink>>
    /\ UNCHANGED <<keepDbRunning, joinIdx, joinView, notD>>

\* Lines 35-39 and the destruction of the members: the dispatcher thread is
\* joined, the store is released, and the vector's threads are destroyed; a
\* thread that is still joinable makes ~thread call std::terminate.
JoinDispatcher ==
    /\ running
    /\ dtor = "joinDispatcher"
    /\ pc = "exited"
    /\ IF \A i \in DOMAIN eventDispatchThreads : eventDispatchThreads[i].state = "joined"
       THEN dtor' = "done" /\ UNCHANGED running
       ELSE dtor' = "terminated" /\ running' = FALSE
    /\ UNCHANGED <<backend, db, sqliteSeq, event, pc, elapsed, current_time,
                   eventDispatchThreads, fetched, writes, crashes, recovered, lastSink>>
    /\ UNCHANGED <<keepDbRunning, joinIdx, joinView, notD>>

\* No updateEventStatus call has been made on its own.
NoUpdate == [made |-> FALSE, ids |-> <<>>, before |-> <<>>, error |-> FALSE]
IdleUpdate == lastUpdate = NoUpdate

\* One call of the backend's updateEventStatus on the store.
UpdateEventStatus(event_ids) ==
    /\ pc = "update"
    /\ LET done == IF backend = "rocksdb"
                   THEN RocksDBWrapper_updateEventStatus(db, event_ids)
                   ELSE SQLiteWrapper_updateEventStatus(db, event_ids)
       IN  /\ db' = done.store
           /\ lastUpdate' = [made |-> TRUE, ids |-> event_ids, before |-> db,
                             error |-> done.error]
    /\ pc' = "updated"
    /\ UNCHANGED <<backend, sqliteSeq, event, running, elapsed, current_time,
                   eventDispatchThreads, fetched, writes, crashes, recovered, lastSink>>
    /\ UNCHANGED <<fvars, avars, tvars, mvars, cvars, hvars, svars, evars,
                   kvars, lvars, dvars, gvars>>

NextQ ==
    \/ CreateEvent
    \/ DeleteDispatched
    \/ ReapThreads
    \/ CheckTrigger
    \/ Sleep
    \/ FetchAndDispatch
    \/ \E i \in DOMAIN eventDispatchThreads, ok \in BOOLEAN : SinkWorker(i, ok)
    \/ Tick
    \/ Crash
    \/ EventQueueMonitor

(***************************************************************************)
(* Part III: the stateful / stateless / command pipelines.                 *)
(* Agent::Run wires each pipeline to HttpClient::Co_PerformHttpRequest.    *)
(***************************************************************************)
A_SECOND_IN_MILLIS == 1000
DEFAULT_MAX_BATCHING_SIZE == 1000
GlobalMetaLen == 16     \* {"agent":"test"}
ModuleMetaLen == 39     \* {"module":"logcollector","type":"file"}
CommandLen == 11        \* "command_1" as a JSON string

Pipelines == {"COMMANDS", "STATEFUL", "STATELESS"}
Kinds == {"STATEFUL", "STATELESS", "COMMAND"}
MsgSizes == {400, 1100}
ConfigValues == {0, 999, 1000, 1500}      \* 0: the key is absent
HttpStatuses == {200, 401, 403, 500}
CommandResponses == {<<>>, <<"command_1">>}

NoPop == [n |-> -1, removed |-> <<>>]
\* A token is the string held in *m_token; only its exp claim matters
\* (exp = -1: the token has no exp claim).  NoToken is the empty string.
NoToken == [has |-> FALSE, exp |-> 0]
EmptyBody == [msgs |-> <<>>, len |-> 0]

\* Variant of EffectiveMaxBatchingSize without the test of lines 35-38.
EffectiveMaxBatchingSize_NoFloor(cfg) ==
    IF cfg = 0 THEN DEFAULT_MAX_BATCHING_SIZE ELSE cfg

\* Agent::Agent, lines 32-38.
EffectiveMaxBatchingSize(cfg) ==
    LET v == IF cfg = 0 THEN DEFAULT_MAX_BATCHING_SIZE ELSE cfg
    IN  IF v < A_SECOND_IN_MILLIS THEN DEFAULT_MAX_BATCHING_SIZE ELSE v

RECURSIVE SumSizes(_)
SumSizes(msgs) == IF msgs = <<>> THEN 0 ELSE Head(msgs).size + 2 + SumSizes(Tail(msgs))

\* Length of the frame  <global metadata> \n <module metadata> \n [ "d0","d1",... ]
\* where size is the length of a message's data once escaped.
FrameLen(msgs) ==
    GlobalMetaLen + 1 + (IF msgs = <<>> THEN 0 ELSE ModuleMetaLen) + 1
    + 2 + SumSizes(msgs) + (IF Len(msgs) > 1 THEN Len(msgs) - 1 ELSE 0)

\* Variant of the drain that always takes the first message.
RECURSIVE DrainByBytes_FirstAlways(_, _, _)
DrainByBytes_FirstAlways(lane, taken, maxBytes) ==
    IF lane = <<>> THEN taken
    ELSE IF taken = <<>> \/ FrameLen(Append(taken, Head(lane))) <= maxBytes
         THEN DrainByBytes_FirstAlways(Tail(lane), Append(taken, Head(lane)), maxBytes)
         ELSE taken

\* The messages GetMessagesFromQueue drains: the longest prefix of the lane
\* whose frame is at most maxBytes long.
RECURSIVE DrainByBytes(_, _, _)
DrainByBytes(lane, taken, maxBytes) ==
    IF lane = <<>> THEN taken
    ELSE IF FrameLen(Append(taken, Head(lane))) <= maxBytes
         THEN DrainByBytes(Tail(lane), Append(taken, Head(lane)), maxBytes)
         ELSE taken

GetMessagesFromQueue(lane, maxBytes) ==
    LET msgs == DrainByBytes(lane, <<>>, maxBytes)
    IN  [msgs |-> msgs, len |-> FrameLen(msgs)]

\* MultiTypeQueue::popN: removes up to n oldest messages.
popN(lane, n) == SubSeq(lane, MinOf(n, Len(lane)) + 1, Len(lane))
popN_removed(lane, n) == SubSeq(lane, 1, MinOf(n, Len(lane)))

\* PopMessagesFromQueue(queue, kind, n) hands n to popN.
PopMessagesFromQueue(lane, n) == popN(lane, n)

\* Agent::Run, lines 69-70 and 78-79: the count handed to
\* PopMessagesFromQueue by the onSuccess callbacks.
OnSuccessPopCount == m_maxBatchingSize

\* PushCommandsToQueue: one COMMAND message per element of "commands".
CommandMessages(cmds, first) ==
    [i \in DOMAIN cmds |-> [id |-> first + i, size |-> CommandLen, data |-> cmds[i]]]

\* PushCommandsToQueue(queue, response): the messages built from the
\* response's commands array go to the COMMAND lane.
PushCommandsToQueue_queue(q, cmds, first) ==
    IF cmds = <<>> THEN q
    ELSE [q EXCEPT !["COMMAND"] = @ \o CommandMessages(cmds, first)]

\* Variant that calls push also with an empty vector.
PushCommandsToQueue_pushes_Always(calls, msgs) == Append(calls, msgs)

\* The calls of MultiTypeQueue::push(std::vector<Message>) it makes.
PushCommandsToQueue_pushes(calls, msgs) ==
    IF msgs = <<>> THEN calls ELSE Append(calls, msgs)

\* Communicator::GetTokenRemainingSecs
RemainingSecs(exp, t) == IF exp - t > 0 THEN exp - t ELSE 0
GetTokenRemainingSecs == RemainingSecs(m_tokenExpTimeInSeconds, now)

\* What an iteration of Co_PerformHttpRequest has done so far: the calls of
\* messageGetter, AsyncWrite, onSuccess and onUnauthorized, whether
\* AsyncConnect gave an error and whether the socket was closed after it, the
\* body of the response read and the argument handed to onSuccess, and
\* whether the shared token had changed since the loop's previous request.
NoCalls ==
    [messageGetter |-> 0, written |-> 0, onSuccess |-> 0, onUnauthorized |-> 0,
     connectError |-> FALSE, closed |-> FALSE, body |-> <<>>, arg |-> <<>>,
     rotated |-> FALSE]

\* Variant of the status test that treats 403 like any other status.
StatusBranch_OnlyUnauthorized(status) ==
    IF status = 200 THEN "ok"
    ELSE IF status = 401 THEN "unauthorized"
    ELSE "other"

\* Lines 144-159: the branch taken for the status of the response.
StatusBranch(status) ==
    IF status = 200 THEN "ok"
    ELSE IF status \in {401, 403} THEN "unauthorized"
    ELSE "other"

IdleA ==
    /\ max_batching_size = 0
    /\ m_maxBatchingSize = DEFAULT_MAX_BATCHING_SIZE
    /\ m_keepRunning = TRUE
    /\ queue = [k \in Kinds |-> <<>>]
    /\ pushed = 0
    /\ ppc = [p \in Pipelines |-> "idle"]
    /\ reqBody = [p \in Pipelines |-> EmptyBody]
    /\ reqToken = [p \in Pipelines |-> NoToken]
    /\ res = [p \in Pipelines |-> 0]
    /\ timerSleep = [p \in Pipelines |-> "batchingInterval"]
    /\ lastPop = [p \in Pipelines |-> NoPop]
    /\ staleBegin = [p \in Pipelines |-> FALSE]
    /\ called = [p \in Pipelines |-> NoCalls]

InitA ==
    /\ max_batching_size \in ConfigValues
    /\ m_maxBatchingSize = EffectiveMaxBatchingSize(max_batching_size)
    /\ m_keepRunning = TRUE
    /\ queue = [k \in Kinds |-> <<>>]
    /\ pushed = 0
    /\ ppc = [p \in Pipelines |-> "idle"]
    /\ reqBody = [p \in Pipelines |-> EmptyBody]
    /\ reqToken = [p \in Pipelines |-> NoToken]
    /\ res = [p \in Pipelines |-> 0]
    /\ timerSleep = [p \in Pipelines |-> "batchingInterval"]
    /\ lastPop = [p \in Pipelines |-> NoPop]
    /\ staleBegin = [p \in Pipelines |-> FALSE]
    /\ called = [p \in Pipelines |-> NoCalls]

\* A module hands a message to the queue (the push lambda of Agent::Agent).
ModulePush(kind, size) ==
    /\ pushed < MaxMsgs
    /\ queue' = [queue EXCEPT ![kind] = Append(@, [id |-> pushed + 1, size |-> size])]
    /\ pushed' = pushed + 1
    /\ UNCHANGED <<m_maxBatchingSize, m_keepRunning, ppc, reqBody, reqToken, res,
                   timerSleep, lastPop, staleBegin, called>>
    /\ UNCHANGED <<qvars, fvars, tvars, uvars>>

\* The top of a loop iteration: long timerSleep = batchingInterval.
BeginIteration(p) ==
    /\ ppc' = [ppc EXCEPT ![p] = "connect"]
    /\ res' = [res EXCEPT ![p] = 0]
    /\ timerSleep' = [timerSleep EXCEPT ![p] = "batchingInterval"]
    /\ lastPop' = [lastPop EXCEPT ![p] = NoPop]
    /\ staleBegin' = [staleBegin EXCEPT ![p] = hasSucceeded /\ GetTokenRemainingSecs <= 0]
    /\ called' = [called EXCEPT ![p] = NoCalls]

\* while (loopRequestCondition != nullptr && loopRequestCondition())
LoopCondition(p) ==
    IF m_keepRunning
    THEN BeginIteration(p)
    ELSE /\ ppc' = [ppc EXCEPT ![p] = "done"]
         /\ UNCHANGED <<res, timerSleep, lastPop, staleBegin, called>>

\* Variant of the error path that waits connectionRetry before it retries.
CloseAndContinue_Backoff(p) ==
    /\ ppc' = [ppc EXCEPT ![p] = "retry"]
    /\ called' = [called EXCEPT ![p].closed = TRUE]
    /\ UNCHANGED <<res, timerSleep, lastPop, staleBegin>>

\* Lines 127-132 and 137-142: socket->Close(); continue;  the continue of a
\* do-while goes to the loop condition, no wait comes before it.  The
\* record of the next iteration keeps that the socket was closed.
CloseAndContinue(p) ==
    IF m_keepRunning
    THEN /\ ppc' = [ppc EXCEPT ![p] = "connect"]
         /\ res' = [res EXCEPT ![p] = 0]
         /\ timerSleep' = [timerSleep EXCEPT ![p] = "batchingInterval"]
         /\ lastPop' = [lastPop EXCEPT ![p] = NoPop]
         /\ staleBegin' = [staleBegin EXCEPT ![p] = hasSucceeded /\ GetTokenRemainingSecs <= 0]
         /\ called' = [called EXCEPT ![p] = [NoCalls EXCEPT !.closed = TRUE]]
    ELSE /\ ppc' = [ppc EXCEPT ![p] = "done"]
         /\ called' = [called EXCEPT ![p].closed = TRUE]
         /\ UNCHANGED <<res, timerSleep, lastPop, staleBegin>>

\* Agent::Run starts the task; the do-while body is entered before the loop
\* condition is ever tested.
StartTask(p) ==
    /\ ppc[p] = "idle"
    /\ BeginIteration(p)
    /\ UNCHANGED <<m_maxBatchingSize, m_keepRunning, queue, pushed, reqBody, reqToken>>
    /\ UNCHANGED <<qvars, fvars, tvars, uvars>>

\* Variant of the connect step that goes on to the body producer also after
\* a failed connect.
Connect_FailureGoesOn(p, ok) ==
    /\ ppc[p] = "connect"
    /\ ppc' = [ppc EXCEPT ![p] = "getmsg"]
    /\ called' = [called EXCEPT ![p].connectError = ~ok]
    /\ UNCHANGED <<m_maxBatchingSize, m_keepRunning, queue, pushed, reqBody, reqToken,
                   res, timerSleep, lastPop, staleBegin>>
    /\ UNCHANGED <<qvars, fvars, tvars, uvars>>

\* Lines 92-110: socket, resolve, connect; on error close and wait
\* connectionRetry.
Connect(p, ok) ==
    /\ ppc[p] = "connect"
    /\ ppc' = [ppc EXCEPT ![p] = IF ok THEN "getmsg" ELSE "retry"]
    /\ called' = [called EXCEPT ![p].connectError = ~ok, ![p].closed = ~ok]
    /\ UNCHANGED <<m_maxBatchingSize, m_keepRunning, queue, pushed, reqBody, reqToken,
                   res, timerSleep, lastPop, staleBegin>>
    /\ UNCHANGED <<qvars, fvars, tvars, uvars>>

\* Lines 107-109: the retry wait is over; continue.
RetryElapsed(p) ==
    /\ ppc[p] = "retry"
    /\ LoopCondition(p)
    /\ UNCHANGED <<m_maxBatchingSize, m_keepRunning, queue, pushed, reqBody, reqToken>>
    /\ UNCHANGED <<qvars, fvars, tvars, uvars>>

\* Variant that keeps the token reqParams already holds (the one of the
\* loop's previous request) once it holds one.
RequestToken_Kept(held, previous) == IF previous.has THEN previous ELSE held

\* Line 121: reqParams.Token = *token, the value the shared token holds now;
\* reqParams still holds the token of the loop's previous request.
RequestToken(held, previous) == held

\* Lines 112-122: the body from the message getter (which waits for a message
\* in the lane), then the token.  The executor resumes one coroutine at a
\* time, so the read of the token does not overlap the store of
\* SendAuthenticationRequest.
GetMessages(p) ==
    /\ ppc[p] = "getmsg"
    /\ IF p = "COMMANDS"
       THEN /\ reqBody' = [reqBody EXCEPT ![p] = EmptyBody]
            /\ called' = [called EXCEPT ![p].rotated =
                             reqToken[p].has /\ reqToken[p] # m_token]
       ELSE /\ queue[p] # <<>>
            /\ reqBody' = [reqBody EXCEPT ![p] =
                             GetMessagesFromQueue(queue[p], m_maxBatchingSize)]
            /\ called' = [called EXCEPT ![p].messageGetter = @ + 1,
                                        ![p].rotated =
                                            reqToken[p].has /\ reqToken[p] # m_token]
    /\ reqToken' = [reqToken EXCEPT ![p] = RequestToken(m_token, reqToken[p])]
    /\ ppc' = [ppc EXCEPT ![p] = "write"]
    /\ UNCHANGED <<m_maxBatchingSize, m_keepRunning, queue, pushed, res, timerSleep,
                   lastPop, staleBegin>>
    /\ UNCHANGED <<qvars, fvars, tvars, uvars>>

\* Lines 124-132: write; on error close and continue.
Write(p, ok) ==
    /\ ppc[p] = "write"
    /\ IF ok
       THEN /\ ppc' = [ppc EXCEPT ![p] = "read"]
            /\ called' = [called EXCEPT ![p].written = @ + 1]
            /\ UNCHANGED <<res, timerSleep, lastPop, staleBegin>>
       ELSE CloseAndContinue(p)
    /\ UNCHANGED <<m_maxBatchingSize, m_keepRunning, queue, pushed, reqBody, reqToken>>
    /\ UNCHANGED <<qvars, fvars, tvars, uvars>>

\* Lines 134-142: read fails; close and continue.
ReadError(p) ==
    /\ ppc[p] = "read"
    /\ CloseAndContinue(p)
    /\ UNCHANGED <<m_maxBatchingSize, m_keepRunning, queue, pushed, reqBody, reqToken>>
    /\ UNCHANGED <<qvars, fvars, tvars, uvars>>

\* Lines 134-166: a response is read and dispatched by status.  200: onSuccess
\* (Agent::Run: the commands are pushed, or PopMessagesFromQueue is called);
\* 401/403: onUnauthorized (an empty lambda in Communicator) and the retry
\* delay.
ReadResponse(p, status, cmds) ==
    /\ ppc[p] = "read"
    /\ res' = [res EXCEPT ![p] = status]
    /\ called' = [called EXCEPT ![p] =
                   [@ EXCEPT !.body = cmds,
                             !.onSuccess =
                                 IF StatusBranch(status) = "ok" THEN @ + 1 ELSE @,
                             !.arg = IF StatusBranch(status) = "ok" THEN cmds ELSE @,
                             !.onUnauthorized =
                                 IF StatusBranch(status) = "unauthorized" THEN @ + 1 ELSE @]]
    /\ IF StatusBranch(status) = "ok"
       THEN IF p = "COMMANDS"
            THEN /\ pushed + Len(cmds) <= MaxMsgs
                 /\ commands' = cmds
                 /\ queue' = PushCommandsToQueue_queue(queue, cmds, pushed)
                 /\ pushes' = PushCommandsToQueue_pushes(pushes, CommandMessages(cmds, pushed))
                 /\ pushed' = pushed + Len(cmds)
                 /\ UNCHANGED <<lastPop, delivered>>
            ELSE /\ cmds = <<>>
                 /\ delivered' = delivered \cup {reqBody[p].msgs[i].id : i \in DOMAIN reqBody[p].msgs}
                 /\ queue' = [queue EXCEPT ![p] = PopMessagesFromQueue(@, OnSuccessPopCount)]
                 /\ lastPop' = [lastPop EXCEPT ![p] =
                                  [n |-> OnSuccessPopCount,
                                   removed |-> popN_removed(queue[p], OnSuccessPopCount)]]
                 /\ UNCHANGED <<pushed, cvars>>
       ELSE /\ cmds = <<>>
            /\ UNCHANGED <<queue, pushed, lastPop, cvars, delivered>>
    /\ timerSleep' = [timerSleep EXCEPT ![p] =
                        IF StatusBranch(status) = "unauthorized" THEN "connectionRetry" ELSE @]
    /\ ppc' = [ppc EXCEPT ![p] = "sleep"]
    /\ UNCHANGED <<m_maxBatchingSize, m_keepRunning, reqBody, reqToken, staleBegin>>
    /\ UNCHANGED <<qvars, fvars, tvars, mvars, hvars, svars, reachable, wvars>>

\* Lines 164-167: the final wait is over; the loop condition is tested.
SleepElapsed(p) ==
    /\ ppc[p] = "sleep"
    /\ LoopCondition(p)
    /\ UNCHANGED <<m_maxBatchingSize, m_keepRunning, queue, pushed, reqBody, reqToken>>
    /\ UNCHANGED <<qvars, fvars, tvars, uvars>>

\* Communicator::Stop
Stop ==
    /\ m_keepRunning
    /\ m_keepRunning' = FALSE
    /\ UNCHANGED <<m_maxBatchingSize, queue, pushed, ppc, reqBody, reqToken, res,
                   timerSleep, lastPop, staleBegin, called>>
    /\ UNCHANGED <<qvars, fvars, tvars, uvars>>

PipelineStep(p, responses) ==
    \/ StartTask(p)
    \/ \E ok \in BOOLEAN : Connect(p, ok)
    \/ RetryElapsed(p)
    \/ GetMessages(p)
    \/ \E ok \in BOOLEAN : Write(p, ok)
    \/ ReadError(p)
    \/ \E status \in HttpStatuses, cmds \in responses : ReadResponse(p, status, cmds)
    \/ SleepElapsed(p)

(***************************************************************************)
(* Part IV: the session: WaitForTokenExpirationAndAuthenticate,            *)
(* SendAuthenticationRequest, TryReAuthenticate (communicator.cpp).        *)
(***************************************************************************)
TOKEN_PRE_EXPIRY_SECS == 2
ExpDeltas == {1, 3}          \* lifetimes of the tokens the manager issues
Callers == 1 .. NumCallers

\* What AuthenticateWithUuidAndKey returns: nothing, a token with an exp
\* claim, or a token without one.
AuthAnswers ==
    {NoToken} \cup {[has |-> TRUE, exp |-> now + d] : d \in ExpDeltas}
              \cup {[has |-> TRUE, exp |-> -1]}

IdleT ==
    /\ now = 2
    /\ m_token = NoToken
    /\ m_tokenExpTimeInSeconds = 1
    /\ m_tokenExpTimer = FALSE
    /\ timerDeadline = 0
    /\ timerAborted = FALSE
    /\ authPc = "start"
    /\ authResult = "none"
    /\ hasSucceeded = FALSE
    /\ m_reAuthMutex = 0
    /\ m_isReAuthenticating = FALSE
    /\ rpc = [c \in Callers |-> "idle"]
    /\ blockedBy = [c \in Callers |-> 0]
    /\ acted = [c \in Callers |-> FALSE]

InitT == IdleT

\* Variant of the wait computation that adds the pre-expiry margin.
AuthWaitMillis_Late(result, remaining) ==
    IF result # "ok"
    THEN A_SECOND_IN_MILLIS
    ELSE (remaining + TOKEN_PRE_EXPIRY_SECS) * A_SECOND_IN_MILLIS

\* Variant of the wait computation without the pre-expiry margin.
AuthWaitMillis_FullLifetime(result, remaining) ==
    IF result # "ok"
    THEN A_SECOND_IN_MILLIS
    ELSE remaining * A_SECOND_IN_MILLIS

\* Lines 111-124: the wait after an authentication attempt, computed from the
\* expiry the attempt has just stored.
AuthWaitMillis(result, remaining) ==
    IF result # "ok"
    THEN A_SECOND_IN_MILLIS
    ELSE (remaining - TOKEN_PRE_EXPIRY_SECS) * A_SECOND_IN_MILLIS

\* Lines 106-107: the coroutine starts and creates the timer.
StartTokenLoop ==
    /\ authPc = "start"
    /\ m_tokenExpTimer' = TRUE
    /\ authPc' = "loop"
    /\ UNCHANGED <<now, m_token, m_tokenExpTimeInSeconds, timerDeadline, timerAborted,
                   authResult, hasSucceeded, m_reAuthMutex, m_isReAuthenticating,
                   rpc, blockedBy, acted>>
    /\ UNCHANGED <<qvars, fvars, avars, uvars>>

\* Line 109 and the call of SendAuthenticationRequest: the request is sent.
AuthBegin ==
    /\ authPc = "loop"
    /\ authPc' = IF m_keepRunning THEN "authenticating" ELSE "done"
    /\ UNCHANGED <<now, m_token, m_tokenExpTimeInSeconds, m_tokenExpTimer,
                   timerDeadline, timerAborted, authResult, hasSucceeded,
                   m_reAuthMutex, m_isReAuthenticating, rpc, blockedBy, acted>>
    /\ UNCHANGED <<qvars, fvars, avars, uvars>>

\* SendAuthenticationRequest (lines 46-76) gets its answer, then lines 111-129:
\* expires_after(duration) and the wait begins.
AuthReply(answer) ==
    /\ authPc = "authenticating"
    /\ IF ~answer.has
       THEN /\ authResult' = "unauthorized"
            /\ UNCHANGED <<m_token, m_tokenExpTimeInSeconds, hasSucceeded>>
       ELSE IF answer.exp # -1
       THEN /\ m_token' = answer
            /\ m_tokenExpTimeInSeconds' = answer.exp
            /\ authResult' = "ok"
            /\ hasSucceeded' = TRUE
       ELSE /\ m_token' = NoToken
            /\ m_tokenExpTimeInSeconds' = 1
            /\ authResult' = "unauthorized"
            /\ UNCHANGED hasSucceeded
    /\ timerDeadline' = now * A_SECOND_IN_MILLIS + AuthWaitMillis(authResult', RemainingSecs(m_tokenExpTimeInSeconds', now))
    /\ timerAborted' = FALSE
    /\ authPc' = "wait"
    /\ UNCHANGED <<now, m_tokenExpTimer, m_reAuthMutex, m_isReAuthenticating,
                   rpc, blockedBy, acted>>
    /\ UNCHANGED <<qvars, fvars, avars, uvars>>

TimerExpired == now * A_SECOND_IN_MILLIS >= timerDeadline

\* Lines 129-141: the wait ends, by expiry or by cancellation; the loop goes
\* on either way.
TimerWaitEnds ==
    /\ authPc = "wait"
    /\ timerAborted \/ TimerExpired
    /\ authPc' = "loop"
    /\ timerAborted' = FALSE
    /\ UNCHANGED <<now, m_token, m_tokenExpTimeInSeconds, m_tokenExpTimer,
                   timerDeadline, authResult, hasSucceeded, m_reAuthMutex,
                   m_isReAuthenticating, rpc, blockedBy, acted>>
    /\ UNCHANGED <<qvars, fvars, avars, uvars>>

\* The system clock advances.
ClockTick ==
    /\ now < MaxTime
    /\ now' = now + 1
    /\ UNCHANGED <<m_token, m_tokenExpTimeInSeconds, m_tokenExpTimer, timerDeadline,
                   timerAborted, authPc, authResult, hasSucceeded, m_reAuthMutex,
                   m_isReAuthenticating, rpc, blockedBy, acted>>
    /\ UNCHANGED <<qvars, fvars, avars, uvars>>

\* Variant of the entry of TryReAuthenticate that does not look at the mutex.
TryReAuthenticate_NoLock(c) ==
    /\ rpc[c] = "idle"
    /\ acted' = [acted EXCEPT ![c] = FALSE]
    /\ blockedBy' = [blockedBy EXCEPT ![c] = 0]
    /\ m_reAuthMutex' = c
    /\ m_isReAuthenticating' = TRUE
    /\ rpc' = [rpc EXCEPT ![c] = "cancel"]
    /\ UNCHANGED <<now, m_token, m_tokenExpTimeInSeconds, m_tokenExpTimer,
                   timerDeadline, timerAborted, authPc, authResult, hasSucceeded>>
    /\ UNCHANGED <<qvars, fvars, avars, uvars>>

\* Lines 187-188: unique_lock(m_reAuthMutex, try_to_lock), then
\* lock.owns_lock() && !m_isReAuthenticating.exchange(true).
TryReAuthenticate(c) ==
    /\ rpc[c] = "idle"
    /\ acted' = [acted EXCEPT ![c] = FALSE]
    /\ IF m_reAuthMutex = 0
       THEN /\ m_reAuthMutex' = c
            /\ m_isReAuthenticating' = TRUE
            /\ blockedBy' = [blockedBy EXCEPT ![c] = 0]
            /\ rpc' = [rpc EXCEPT ![c] =
                         IF m_isReAuthenticating THEN "refused" ELSE "cancel"]
       ELSE /\ blockedBy' = [blockedBy EXCEPT ![c] = m_reAuthMutex]
            /\ rpc' = [rpc EXCEPT ![c] = "refused"]
            /\ UNCHANGED <<m_reAuthMutex, m_isReAuthenticating>>
    /\ UNCHANGED <<now, m_token, m_tokenExpTimeInSeconds, m_tokenExpTimer,
                   timerDeadline, timerAborted, authPc, authResult, hasSucceeded>>
    /\ UNCHANGED <<qvars, fvars, avars, uvars>>

\* Lines 190-193: if the timer exists, cancel(): a pending wait is aborted.
CancelTimer(c) ==
    /\ rpc[c] = "cancel"
    /\ acted' = [acted EXCEPT ![c] = m_tokenExpTimer]
    /\ timerAborted' = IF m_tokenExpTimer /\ authPc = "wait" THEN TRUE ELSE timerAborted
    /\ rpc' = [rpc EXCEPT ![c] = "clear"]
    /\ UNCHANGED <<now, m_token, m_tokenExpTimeInSeconds, m_tokenExpTimer,
                   timerDeadline, authPc, authResult, hasSucceeded, m_reAuthMutex,
                   m_isReAuthenticating, blockedBy>>
    /\ UNCHANGED <<qvars, fvars, avars, uvars>>

\* Variant of ClearReAuthenticating that leaves the flag set.
ClearReAuthenticating_Kept(c) ==
    /\ rpc[c] = "clear"
    /\ rpc' = [rpc EXCEPT ![c] = "return"]
    /\ UNCHANGED <<now, m_token, m_tokenExpTimeInSeconds, m_tokenExpTimer,
                   timerDeadline, timerAborted, authPc, authResult, hasSucceeded,
                   m_reAuthMutex, m_isReAuthenticating, blockedBy, acted>>
    /\ UNCHANGED <<qvars, fvars, avars, uvars>>

\* Line 194: m_isReAuthenticating = false.
ClearReAuthenticating(c) ==
    /\ rpc[c] = "clear"
    /\ m_isReAuthenticating' = FALSE
    /\ rpc' = [rpc EXCEPT ![c] = "return"]
    /\ UNCHANGED <<now, m_token, m_tokenExpTimeInSeconds, m_tokenExpTimer,
                   timerDeadline, timerAborted, authPc, authResult, hasSucceeded,
                   m_reAuthMutex, blockedBy, acted>>
    /\ UNCHANGED <<qvars, fvars, avars, uvars>>

\* Lines 196-200: the else branch only logs; the end of the function releases
\* the mutex if this call owns it.
ReturnFromReAuthenticate(c) ==
    /\ rpc[c] \in {"return", "refused"}
    /\ m_reAuthMutex' = IF m_reAuthMutex = c THEN 0 ELSE m_reAuthMutex
    /\ rpc' = [rpc EXCEPT ![c] = "idle"]
    /\ UNCHANGED <<now, m_token, m_tokenExpTimeInSeconds, m_tokenExpTimer,
                   timerDeadline, timerAborted, authPc, authResult, hasSucceeded,
                   m_isReAuthenticating, blockedBy, acted>>
    /\ UNCHANGED <<qvars, fvars, avars, uvars>>


(***************************************************************************)
(* Part V: functions checked on their own.                                 *)
(*                                                                         *)
(* GetMessagesFromQueue is defined in no file of src/; its body is         *)
(* modelled from the spec (section 4.H) and from the two tests of          *)
(* message_queue_utils_test.cpp.  Texts are sequences of characters.       *)
(***************************************************************************)
\* The characters of a message's data that matter to the array syntax.
DataChars == {"\"", "\\", ","}

RECURSIVE SeqsUpTo(_, _)
SeqsUpTo(S, n) ==
    IF n = 0 THEN {<<>>}
    ELSE LET shorter == SeqsUpTo(S, n - 1)
         IN  shorter \cup {Append(q, c) : q \in shorter, c \in S}

DataTexts == SeqsUpTo(DataChars, MaxDataLen)
ModuleMetadata == {<<"{", "}">>, <<"{", "m", "}">>}
\* getMetadataInfo: nullptr, or a function returning the dump of a JSON object.
MetadataProviders ==
    {[has |-> FALSE, value |-> <<>>]}
        \cup {[has |-> TRUE, value |-> v] : v \in {<<"{", "}">>, <<"{", "a", "}">>}}
FrameMessages == [data : DataTexts, metaData : ModuleMetadata]

RECURSIVE Concat(_)
Concat(ss) == IF ss = <<>> THEN <<>> ELSE Head(ss) \o Concat(Tail(ss))

\* Variant of JsonEscape that copies the text.
JsonEscape_None(text) == text

\* nlohmann::json::dump of a string: a quote and a backslash get a backslash.
JsonEscape(text) ==
    Concat([i \in DOMAIN text |->
              IF text[i] \in {"\"", "\\"} THEN <<"\\", text[i]>> ELSE <<text[i]>>])

JsonString(text) == <<"\"">> \o JsonEscape(text) \o <<"\"">>

\* dump of a JSON array of strings: ["d0","d1",...]
JsonArrayOfStrings(texts) ==
    <<"[">> \o Concat([i \in DOMAIN texts |->
                         (IF i > 1 THEN <<",">> ELSE <<>>) \o JsonString(texts[i])])
            \o <<"]">>

\* The body: <global metadata> \n <metadata of the first message> \n <array>.
GetMessagesFromQueue_output(provider, msgs) ==
    (IF provider.has THEN provider.value ELSE <<>>)
        \o <<"\n">> \o msgs[1].metaData
        \o <<"\n">> \o JsonArrayOfStrings([i \in DOMAIN msgs |-> msgs[i].data])

IdleFrame ==
    /\ messages = <<>>
    /\ getMetadataInfo = [has |-> FALSE, value |-> <<>>]
    /\ output = <<>>

IdleCommands == commands = <<>> /\ pushes = <<>>

\* http_client.cpp lines 40-70.  A header value is the sequence of the
\* texts it is concatenated from; set() replaces the field of that name.
NoRequest == [method |-> "", target |-> "", version |-> 0, fields |-> <<>>, body |-> ""]

Methods == {"get", "post"}
Endpoints == {"/commands", "/stateful", "/api/v1/authentication"}
Tokens == {"", "token_1", "token_2"}
UserPasses == {"", "dXNlcjpwYXNz"}
Bodies == {"", "{}"}
HttpRequestParams ==
    [Method : Methods, Host : {"localhost"}, Endpoint : Endpoints,
     User_agent : {"agent"}, Token : Tokens, User_pass : UserPasses, Body : Bodies]

\* basic_fields::set: the field's earlier values are removed, the new one is
\* added.
set(fields, name, value) ==
    Append(SelectSeq(fields, LAMBDA f : f.name # name), [name |-> name, value |-> value])

erase(fields, name) == SelectSeq(fields, LAMBDA f : f.name # name)

\* Lines 51-59: the Authorization header.
SetAuthorization(fields, p) ==
    LET bearer == IF p.Token # ""
                  THEN set(fields, "authorization", <<"Bearer ", p.Token>>)
                  ELSE fields
    IN  IF p.User_pass # ""
        THEN set(bearer, "authorization", <<"Basic ", p.User_pass>>)
        ELSE bearer

\* std::string::size of the bodies above.
BodySize(body) == IF body = "{}" THEN 2 ELSE 0

\* Lines 61-67: the body; prepare_payload() of a string body sets
\* Content-Length and removes the chunked encoding.
SetBody(fields, p) ==
    IF p.Body # ""
    THEN set(erase(set(fields, "content_type", <<"application/json">>),
                   "transfer_encoding"),
             "content_length", <<BodySize(p.Body)>>)
    ELSE fields

CreateHttpRequest_req(p) ==
    LET base == set(set(set(<<>>, "host", <<p.Host>>),
                        "user_agent", <<p.User_agent>>),
                    "accept", <<"application/json">>)
    IN  [method |-> p.Method, target |-> p.Endpoint, version |-> 11,
         fields |-> SetBody(SetAuthorization(base, p), p), body |-> p.Body]

IdleRequest ==
    /\ params = [Method |-> "get", Host |-> "localhost", Endpoint |-> "/commands",
                 User_agent |-> "agent", Token |-> "", User_pass |-> "", Body |-> ""]
    /\ req = NoRequest

\* http_client.cpp lines 170-233: the synchronous request and the
\* authentication built on it.
Faults == {"none", "resolve", "connect", "write", "read"}

\* The bodies a manager can answer with: {"token":"token_1"}, {"token":5},
\* {} and a text that is no JSON.
ReplyBodies ==
    {[parses |-> TRUE,  hasToken |-> TRUE,  isString |-> TRUE,  token |-> "token_1"],
     [parses |-> TRUE,  hasToken |-> TRUE,  isString |-> FALSE, token |-> ""],
     [parses |-> TRUE,  hasToken |-> FALSE, isString |-> FALSE, token |-> ""],
     [parses |-> FALSE, hasToken |-> FALSE, isString |-> FALSE, token |-> ""]}
NoBody == [parses |-> FALSE, hasToken |-> FALSE, isString |-> FALSE, token |-> ""]
Replies == [status : HttpStatuses, body : ReplyBodies]

NoResponse == [returned |-> FALSE, thrown |-> FALSE, status |-> 0, body |-> NoBody, text |-> <<>>]
NoReturn == [returned |-> FALSE, thrown |-> FALSE, has |-> FALSE, value |-> ""]

\* Variant of the handler that does not catch a failed read.
CatchesStdException_NotRead(f) == f # "read"

\* Line 192: catch (std::exception const&); Resolve, Connect, Write and Read
\* throw boost::system::system_error, which is one.
CatchesStdException(f) == TRUE

\* Lines 171-201.
PerformHttpRequest_res(f, r) ==
    IF f = "none"
    THEN [returned |-> TRUE, thrown |-> FALSE, status |-> r.status, body |-> r.body,
          text |-> <<>>]
    ELSE IF CatchesStdException(f)
    THEN [returned |-> TRUE, thrown |-> FALSE, status |-> 500, body |-> NoBody,
          text |-> <<"Internal server error: ", f>>]
    ELSE [returned |-> FALSE, thrown |-> TRUE, status |-> 0, body |-> NoBody, text |-> <<>>]

\* Lines 215-232: a status other than 200 gives nullopt; parse, at("token")
\* and get_ref<const std::string&> throw exceptions that are caught and
\* give nullopt as well.
AuthenticateWithUuidAndKey_return(response) ==
    IF response.thrown
    THEN [returned |-> FALSE, thrown |-> TRUE, has |-> FALSE, value |-> ""]
    ELSE IF response.status # 200
    THEN [returned |-> TRUE, thrown |-> FALSE, has |-> FALSE, value |-> ""]
    ELSE IF response.body.parses /\ response.body.hasToken /\ response.body.isString
    THEN [returned |-> TRUE, thrown |-> FALSE, has |-> TRUE, value |-> response.body.token]
    ELSE [returned |-> TRUE, thrown |-> FALSE, has |-> FALSE, value |-> ""]

IdlePerform ==
    /\ fault = "none"
    /\ reply = [status |-> 200, body |-> NoBody]
    /\ perfRes = NoResponse
    /\ authRet = NoReturn

IdleManager == reachable = FALSE /\ delivered = {}

(***************************************************************************)
(* The command-processing task: CommandHandler::ProcessCommandsFromQueue   *)
(* (command_handler.hpp lines 16-37) with the callbacks Agent::Run hands   *)
(* to it (agent.cpp lines 84-98).  GetCommandFromQueue is defined in no    *)
(* file of src/; it is modelled from its two tests                         *)
(* (message_queue_utils_test.cpp lines 141-165).                           *)
(***************************************************************************)
\* The JSON documents the command names stand for: "command_1" is the
\* BASE_DATA_CONTENT of the tests.
CommandJson(name) ==
    IF name = "command_1"
    THEN [id |-> "112233", args |-> <<"origin_test", "command_test", "parameters_test">>]
    ELSE [id |-> "445566", args |-> <<"CentralizedConfiguration", "set-group">>]

NoCommand ==
    [has |-> FALSE, Id |-> "", Module |-> "", Command |-> "", Parameters |-> <<>>,
     ErrorCode |-> ""]

\* Variant that reads the lane without asking whether it is empty.
GetCommandFromQueue_getNext_Always(lane) == 1

\* The getNext calls GetCommandFromQueue makes: none when isEmpty answers true.
GetCommandFromQueue_getNext(lane) == IF lane = <<>> THEN 0 ELSE 1

\* What GetCommandFromQueue returns: std::nullopt, or the CommandEntry parsed
\* from the data of the oldest message of the lane.
GetCommandFromQueue_cmd(lane) ==
    IF lane = <<>> THEN NoCommand
    ELSE LET j == CommandJson(Head(lane).data)
         IN  [has |-> TRUE, Id |-> j.id, Module |-> j.args[1], Command |-> j.args[2],
              Parameters |-> SubSeq(j.args, 3, Len(j.args)),
              ErrorCode |-> "IN_PROGRESS"]

IdleCommandTask ==
    /\ cpc = "idle"
    /\ cmd = NoCommand
    /\ peeked = 0
    /\ getNextCalls = 0
    /\ dispatched = <<>>

\* Agent::Run enqueues the task (agent.cpp line 84).
StartCommandTask ==
    /\ cpc = "idle"
    /\ cpc' = "get"
    /\ UNCHANGED <<cmd, peeked, getNextCalls, dispatched>>
    /\ UNCHANGED <<qvars, fvars, avars, tvars, mvars, cvars, hvars, svars, evars, lvars, dvars, xvars, gvars>>

\* Lines 26-29: auto cmd = GetCommand(); if (cmd == std::nullopt) the timer
\* is armed.
GetCommand ==
    /\ cpc = "get"
    /\ cmd' = GetCommandFromQueue_cmd(queue["COMMAND"])
    /\ getNextCalls' = GetCommandFromQueue_getNext(queue["COMMAND"])
    /\ peeked' = IF queue["COMMAND"] = <<>> THEN 0 ELSE Head(queue["COMMAND"]).id
    /\ cpc' = IF cmd'.has THEN "dispatch" ELSE "wait"
    /\ UNCHANGED dispatched
    /\ UNCHANGED <<qvars, fvars, avars, tvars, mvars, cvars, hvars, svars, evars, lvars, dvars, xvars, gvars>>

\* Lines 29-32: the one-second wait is over; continue.
CommandWaitElapsed ==
    /\ cpc = "wait"
    /\ cpc' = "get"
    /\ UNCHANGED <<cmd, peeked, getNextCalls, dispatched>>
    /\ UNCHANGED <<qvars, fvars, avars, tvars, mvars, cvars, hvars, svars, evars, lvars, dvars, xvars, gvars>>

\* Line 35: DispatchMessage(cmd.value()); the loop then starts over.  The
\* loop removes nothing from the lane.
DispatchMessage ==
    /\ cpc = "dispatch"
    /\ Len(dispatched) < MaxDispatches
    /\ dispatched' = Append(dispatched, peeked)
    /\ cpc' = "get"
    /\ UNCHANGED <<cmd, peeked, getNextCalls>>
    /\ UNCHANGED <<qvars, fvars, avars, tvars, mvars, cvars, hvars, svars, evars, lvars, dvars, xvars, gvars>>

CommandTaskStep ==
    \/ StartCommandTask
    \/ GetCommand
    \/ CommandWaitElapsed
    \/ DispatchMessage

(***************************************************************************)
(* SignalDispatcher (signal_dispatcher.cpp).                               *)
(***************************************************************************)
Events == {"test_event", "shared_event"}
NotifyEvents == Events \cup {"unregistered_event"}

\* Variant of connect that puts the new slot in front.
connect_AtFront(slots, slot) == <<slot>> \o slots

\* boost::signals2::signal::connect(slot): the slot goes to the back.
connect(slots, slot) == Append(slots, slot)

\* signals[event]: operator[] creates the signal when the key is new.
SignalOf(map, e) == IF e \in DOMAIN map THEN map[e] ELSE <<>>

IdleSignals ==
    /\ signals = [e \in {} |-> <<>>]
    /\ registered = <<>>
    /\ notified = "none"
    /\ invoked = <<>>

\* Line 12: return signals[event].connect(slot).
RegisterListener(e) ==
    /\ Len(registered) < MaxListeners
    /\ registered' = Append(registered, e)
    /\ signals' = [x \in DOMAIN signals \cup {e} |->
                     IF x = e THEN connect(SignalOf(signals, e), Len(registered) + 1)
                     ELSE signals[x]]
    /\ UNCHANGED <<notified, invoked>>
    /\ UNCHANGED <<qvars, fvars, avars, tvars, mvars, cvars, hvars, svars, evars, kvars, dvars, xvars, gvars>>

\* Lines 15-19: find(event); if found, the signal is called: it runs its
\* slots in connection order.
Notify(e) ==
    /\ notified' = e
    /\ invoked' = IF e \in DOMAIN signals THEN signals[e] ELSE <<>>
    /\ UNCHANGED <<signals, registered>>
    /\ UNCHANGED <<qvars, fvars, avars, tvars, mvars, cvars, hvars, svars, evars, kvars, dvars, xvars, gvars>>

IdleW == IdleCommandTask /\ IdleSignals /\ IdleDestructor /\ IdleUpdate

IdleU == IdleFrame /\ IdleCommands /\ IdleRequest /\ IdlePerform /\ IdleManager /\ IdleW

IdleQ ==
    /\ backend = "rocksdb"
    /\ db = <<>>
    /\ sqliteSeq = 0
    /\ event = 0
    /\ running = FALSE
    /\ pc = "gc"
    /\ elapsed = 0
    /\ current_time = 0
    /\ eventDispatchThreads = <<>>
    /\ fetched = FALSE
    /\ writes = 0
    /\ crashes = 0
    /\ recovered = {}
    /\ lastSink = NoSink

Init == InitQ /\ batch = <<>> /\ IdleA /\ IdleT /\ IdleU
Next == NextQ
Spec == Init /\ [][Next]_vars

\* The stateful and the stateless pipeline with the modules that feed them.
InitAgent == IdleQ /\ batch = <<>> /\ InitA /\ IdleT /\ IdleU
NextAgent ==
    \/ \E kind \in {"STATEFUL", "STATELESS"}, size \in MsgSizes : ModulePush(kind, size)
    \/ \E p \in {"STATEFUL", "STATELESS"} : PipelineStep(p, {<<>>})
    \/ Stop
SpecAgent == InitAgent /\ [][NextAgent]_vars

\* The token loop on the clock, a caller of TryReAuthenticate and the command
\* pipeline (whose /commands answers carry no command here).
InitAuth == IdleQ /\ batch = <<>> /\ IdleA /\ InitT /\ IdleU
NextAuth ==
    \/ StartTokenLoop
    \/ AuthBegin
    \/ \E answer \in AuthAnswers : AuthReply(answer)
    \/ TimerWaitEnds
    \/ ClockTick
    \/ TryReAuthenticate(1)
    \/ CancelTimer(1)
    \/ ClearReAuthenticating(1)
    \/ ReturnFromReAuthenticate(1)
    \/ PipelineStep("COMMANDS", {<<>>})
    \/ Stop
SpecAuth == InitAuth /\ [][NextAuth]_vars

\* The token loop on the clock as the sources run it: the three calls of
\* TryReAuthenticate (communicator.cpp lines 89, 151, 171) are commented out,
\* so nothing cancels the timer.
NextRefresh ==
    \/ StartTokenLoop
    \/ AuthBegin
    \/ \E answer \in AuthAnswers : AuthReply(answer)
    \/ TimerWaitEnds
    \/ ClockTick
    \/ PipelineStep("COMMANDS", {<<>>})
    \/ Stop
SpecRefresh == InitAuth /\ [][NextRefresh]_vars

\* The token loop and the concurrent callers of TryReAuthenticate.
NextReAuth ==
    \/ StartTokenLoop
    \/ AuthBegin
    \/ \E answer \in AuthAnswers : AuthReply(answer)
    \/ TimerWaitEnds
    \/ \E c \in Callers : TryReAuthenticate(c)
    \/ \E c \in Callers : CancelTimer(c)
    \/ \E c \in Callers : ClearReAuthenticating(c)
    \/ \E c \in Callers : ReturnFromReAuthenticate(c)
SpecReAuth == InitAuth /\ [][NextReAuth]_vars

\* GetMessagesFromQueue applied to every drained batch and provider.
InitFrame ==
    /\ IdleQ /\ batch = <<>> /\ IdleA /\ IdleT
    /\ \E n \in 1 .. MaxFrameMsgs : messages \in [1 .. n -> FrameMessages]
    /\ getMetadataInfo \in MetadataProviders
    /\ output = <<>>
    /\ IdleCommands /\ IdleRequest /\ IdlePerform /\ IdleManager /\ IdleW

\* co_return of GetMessagesFromQueue.
BuildFrame ==
    /\ output = <<>>
    /\ output' = GetMessagesFromQueue_output(getMetadataInfo, messages)
    /\ UNCHANGED <<messages, getMetadataInfo>>
    /\ UNCHANGED <<qvars, fvars, avars, tvars, cvars, hvars, svars, evars, wvars>>

NextFrame == BuildFrame
SpecFrame == InitFrame /\ [][NextFrame]_vars

\* CreateHttpRequest applied to every HttpRequestParams.
InitRequest ==
    /\ IdleQ /\ batch = <<>> /\ IdleA /\ IdleT /\ IdleFrame /\ IdleCommands
    /\ params \in HttpRequestParams
    /\ req = NoRequest
    /\ IdlePerform /\ IdleManager /\ IdleW

CreateHttpRequest ==
    /\ req = NoRequest
    /\ req' = CreateHttpRequest_req(params)
    /\ UNCHANGED params
    /\ UNCHANGED <<qvars, fvars, avars, tvars, mvars, cvars, svars, evars, wvars>>

NextRequest == CreateHttpRequest
SpecRequest == InitRequest /\ [][NextRequest]_vars

\* AuthenticateWithUuidAndKey under every fault and every answer.
InitPerform ==
    /\ IdleQ /\ batch = <<>> /\ IdleA /\ IdleT
    /\ IdleFrame /\ IdleCommands /\ IdleRequest
    /\ fault \in Faults
    /\ reply \in Replies
    /\ perfRes = NoResponse
    /\ authRet = NoReturn
    /\ IdleManager /\ IdleW

\* Line 213: const auto res = PerformHttpRequest(reqParams).
PerformHttpRequest ==
    /\ perfRes = NoResponse
    /\ perfRes' = PerformHttpRequest_res(fault, reply)
    /\ UNCHANGED <<fault, reply, authRet>>
    /\ UNCHANGED <<qvars, fvars, avars, tvars, mvars, cvars, hvars, evars, wvars>>

\* Lines 215-232: the rest of AuthenticateWithUuidAndKey.
AuthenticateWithUuidAndKey ==
    /\ perfRes # NoResponse
    /\ authRet = NoReturn
    /\ authRet' = AuthenticateWithUuidAndKey_return(perfRes)
    /\ UNCHANGED <<fault, reply, perfRes>>
    /\ UNCHANGED <<qvars, fvars, avars, tvars, mvars, cvars, hvars, evars, wvars>>

NextPerform == PerformHttpRequest \/ AuthenticateWithUuidAndKey
SpecPerform == InitPerform /\ [][NextPerform]_vars

\* The command loop with /commands responses that carry commands:
\* PushCommandsToQueue is the loop's onSuccess callback (agent.cpp 60-61).
CommandNames == {"command_1", "command_2"}
CommandArrays == UNION {[1 .. n -> CommandNames] : n \in 0 .. MaxCommands}

InitCommands == IdleQ /\ batch = <<>> /\ IdleA /\ IdleT /\ IdleU
NextCommands ==
    \/ PipelineStep("COMMANDS", CommandArrays)
    \/ Stop
SpecCommands == InitCommands /\ [][NextCommands]_vars

(***************************************************************************)
(* Part II: the fetch of pending events applied to a store.  The store     *)
(* holds events of ids the counter has produced that are still pending;    *)
(* the others were dispatched and deleted.                                 *)
(***************************************************************************)
FirstId == IF backend = "rocksdb" THEN 0 ELSE 1

StoreOf(S) ==
    [k \in S |-> [id |-> k, event_data |-> EventData(k - FirstId),
                  event_type |-> EventType(k - FirstId),
                  status |-> "pending", seq |-> k - FirstId + 1]]

InitFetch ==
    /\ backend \in Backends
    /\ \E S \in SUBSET (FirstId .. FirstId + MaxStoreId - 1) : db = StoreOf(S)
    /\ sqliteSeq = MaxStoreId
    /\ event = MaxStoreId
    /\ running = TRUE
    /\ pc = "fetch"
    /\ elapsed = T
    /\ current_time = T
    /\ eventDispatchThreads = <<>>
    /\ fetched = FALSE
    /\ writes = MaxStoreId
    /\ crashes = 0
    /\ recovered = {}
    /\ lastSink = NoSink
    /\ batch = <<>>
    /\ IdleA /\ IdleT /\ IdleU

FetchPending ==
    /\ UNCHANGED notF
    /\ pc = "fetch"
    /\ batch' = fetchPendingEvents(db, N)
    /\ pc' = "fetched"
    /\ UNCHANGED <<backend, db, sqliteSeq, event, running, elapsed, current_time,
                   eventDispatchThreads, fetched, writes, crashes, recovered, lastSink>>

NextFetch == FetchPending
SpecFetch == InitFetch /\ [][NextFetch]_vars

(***************************************************************************)
(* Part I on a store that already holds events: the process has inserted   *)
(* the events FirstId .. FirstId + k - 1, all still pending, and the       *)
(* dispatcher is at the top of its loop.                                   *)
(***************************************************************************)
InitStored(most) ==
    /\ backend \in Backends
    /\ \E k \in 0 .. most :
          /\ db = StoreOf(FirstId .. FirstId + k - 1)
          /\ sqliteSeq = k
          /\ event = k
    /\ running = TRUE
    /\ pc = "gc"
    /\ elapsed = 0
    /\ current_time = 0
    /\ eventDispatchThreads = <<>>
    /\ fetched = FALSE
    /\ writes = 0
    /\ crashes = 0
    /\ recovered = {}
    /\ lastSink = NoSink
    /\ batch = <<>>
    /\ IdleA /\ IdleT /\ IdleU

InitBatch == InitStored(MaxStoreId)
SpecBatch == InitBatch /\ [][NextQ]_vars

\* The dispatcher thread and the sink workers keep running: the process does
\* not die, the dispatcher thread is scheduled, and every call of the sink
\* returns.
\* updateEventStatus as a function of a store and of a list of ids: every
\* store over the ids 0 .. MaxUpdateId - 1 with every status, every list of
\* at most two of those ids.
UpdateIds == 0 .. MaxUpdateId - 1
StoreWith(st) ==
    [k \in DOMAIN st |-> [id |-> k, event_data |-> EventData(k),
                          event_type |-> EventType(k),
                          status |-> st[k], seq |-> k + 1]]
IdLists ==
    {<<>>} \cup {<<a>> : a \in UpdateIds}
           \cup {<<p[1], p[2]>> : p \in {q \in UpdateIds \X UpdateIds : q[1] # q[2]}}
InitUpdate ==
    /\ backend \in Backends
    /\ \E S \in SUBSET UpdateIds : \E st \in [S -> Statuses] : db = StoreWith(st)
    /\ sqliteSeq = MaxUpdateId
    /\ event = MaxUpdateId
    /\ running = TRUE
    /\ pc = "update"
    /\ elapsed = 0
    /\ current_time = 0
    /\ eventDispatchThreads = <<>>
    /\ fetched = FALSE
    /\ writes = MaxUpdateId
    /\ crashes = 0
    /\ recovered = {}
    /\ lastSink = NoSink
    /\ batch = <<>>
    /\ IdleA /\ IdleT /\ IdleU
NextUpdate == \E event_ids \in IdLists : UpdateEventStatus(event_ids)
SpecUpdate == InitUpdate /\ [][NextUpdate]_vars

\* The event queue with the monitor's destruction instead of process death.
\* Events are created by the thread that later runs the destructor.
NextDestroy ==
    \/ dtor = "idle" /\ CreateEvent
    \/ DeleteDispatched
    \/ ReapThreads
    \/ CheckTrigger
    \/ Sleep
    \/ FetchAndDispatch
    \/ \E i \in DOMAIN eventDispatchThreads, ok \in BOOLEAN : SinkWorker(i, ok)
    \/ Tick
    \/ DispatcherExit
    \/ Destroy
    \/ JoinWorker
    \/ JoinWorker_Invalidated
    \/ JoinDispatcher
SpecDestroy == Init /\ [][NextDestroy]_vars

DispatcherStep ==
    \/ DeleteDispatched
    \/ ReapThreads
    \/ CheckTrigger
    \/ Sleep
    \/ FetchAndDispatch
SinkStep == \E i \in DOMAIN eventDispatchThreads, ok \in BOOLEAN : SinkWorker(i, ok)
NextLive ==
    \/ CreateEvent
    \/ DispatcherStep
    \/ SinkStep
    \/ Tick
InitLive == InitStored(MaxLiveStore)
SpecLive ==
    InitLive /\ [][NextLive]_vars /\ WF_vars(DispatcherStep) /\ WF_vars(SinkStep)

(***************************************************************************)
(* Claims about the event queue.                                           *)
(***************************************************************************)
\* The fields of the stored events that the program itself writes.
Stored(d) ==
    [k \in DOMAIN d |-> [id |-> d[k].id, event_data |-> d[k].event_data,
                         event_type |-> d[k].event_type, status |-> d[k].status]]

\* C1 (as stated): no step removes or replaces a stored event whose status is
\* pending or processing; an event leaves the store only while dispatched.
C1_NoEventLoss ==
    [][\A k \in DOMAIN db :
          db[k].status \in {"pending", "processing"}
            => k \in DOMAIN db' /\ db'[k].seq = db[k].seq]_vars

C3_CrashRecovery ==
    /\ [][(~running /\ running') =>
            /\ DOMAIN db' = DOMAIN db
            /\ \A k \in DOMAIN db :
                  db'[k] = [db[k] EXCEPT !.status =
                              IF db[k].status = "processing" THEN "pending"
                              ELSE db[k].status]]_vars
    /\ []((running /\ ~fetched) =>
            \A k \in DOMAIN db : db[k].status # "processing")

\* C3 witness: the process was restarted, the recovery reset at least one
\* event, and the dispatcher has not fetched yet.
C3_Witness ==
    /\ running /\ ~fetched /\ crashes > 0
    /\ recovered # {}
    /\ \A k \in recovered : k \in DOMAIN db /\ db[k].status = "pending"

\* C9 (as stated): an insert whose id is already in the store is rejected and
\* leaves the store as it was.
C9_DuplicateIdRejected ==
    [][(event' = event + 1 /\ event \in DOMAIN db) => Stored(db') = Stored(db)]_vars

\* C10 (as stated): a fetched batch lists the events by increasing id and
\* leaves out no pending event older than one it contains.
C10_OldestFirst ==
    pc = "fetched" =>
        /\ \A i, j \in DOMAIN batch : i < j => batch[i].id < batch[j].id
        /\ \A k \in DOMAIN db :
              (db[k].status = "pending" /\ k \notin Ids(batch))
                => \A i \in DOMAIN batch : batch[i].id < k

(***************************************************************************)
(* Claims about the pipelines.                                             *)
(***************************************************************************)
DataPipelines == {"STATEFUL", "STATELESS"}

\* C4 (as stated): in an iteration of the stateful or stateless pipeline popN
\* is called if and only if the answer was 200, and the count handed to it is
\* the number of messages drained into the request body.
C4_PopOnSuccess ==
    \A p \in DataPipelines :
        /\ (lastPop[p] # NoPop) <=> (res[p] = 200)
        /\ lastPop[p] # NoPop => lastPop[p].n = Len(reqBody[p].msgs)

\* C5 (as stated): the messages removed from the lane after a 200 answer are
\* exactly the messages of the request body, in every interleaving with the
\* modules' pushes.
C5_ExactRemoval ==
    \A p \in DataPipelines :
        lastPop[p] # NoPop => lastPop[p].removed = reqBody[p].msgs

AuthTriggered ==
    \/ authPc \in {"loop", "authenticating"}
    \/ authPc = "wait" /\ (timerAborted \/ TimerExpired)

\* The last attempt failed and the wait before the next one is running.
RetryPending == authPc = "wait" /\ authResult # "ok" /\ ~TimerExpired

\* A step in which the request loop p begins an iteration with an expired
\* token after an authentication has succeeded.
BeginsStale(p) ==
    /\ ppc[p] # "connect" /\ ppc'[p] = "connect"
    /\ hasSucceeded /\ GetTokenRemainingSecs <= 0

InCancelBranch(c) == rpc[c] \in {"cancel", "clear", "return"}

\* C8: of the calls of TryReAuthenticate that overlap, exactly one runs the
\* branch that cancels the timer: the call that holds the mutex; at most one
\* call is in that branch, and every call that was refused was refused
\* because of another call under way and has done nothing.
C8_SingleFlight ==
    /\ \A c, d \in Callers : (InCancelBranch(c) /\ InCancelBranch(d)) => c = d
    /\ \A c \in Callers : InCancelBranch(c) => m_reAuthMutex = c
    /\ m_reAuthMutex # 0 => InCancelBranch(m_reAuthMutex)
    /\ m_isReAuthenticating => \E c \in Callers : rpc[c] \in {"cancel", "clear"}
    /\ \A c \in Callers :
          rpc[c] = "refused" =>
              /\ ~acted[c]
              /\ blockedBy[c] \in Callers \ {c}

\* C8 witness: one call has cancelled the pending wait of the timer and is
\* still under way while another call has been refused because of it.
C8_Witness ==
    \E c, d \in Callers :
        /\ c # d
        /\ rpc[c] = "clear" /\ acted[c] /\ timerAborted /\ authPc = "wait"
        /\ rpc[d] = "refused" /\ blockedBy[d] = c

(***************************************************************************)
(* Claims about the dispatcher's batches.                                  *)
(***************************************************************************)
PendingIds(d) == {k \in DOMAIN d : d[k].status = "pending"}
ProcessingIds(d) == {k \in DOMAIN d : d[k].status = "processing"}

\* The step of the dispatcher that fetches and marks (lines 77-104).
FetchStep == running /\ pc = "fetch" /\ running' /\ pc' = "gc"

\* C11: a fetch-and-mark step turns exactly min(N, pendingCount) events from
\* pending to processing, changes nothing else in the store, and hands
\* exactly those events to one new sink worker (to none if there are none).
C11_FetchAndMark ==
    [][FetchStep =>
         LET marked == {k \in PendingIds(db) : k \in ProcessingIds(db')}
         IN  /\ DOMAIN db' = DOMAIN db
             /\ Cardinality(marked) = MinOf(N, Cardinality(PendingIds(db)))
             /\ \A k \in DOMAIN db :
                   db'[k] = IF k \in marked
                            THEN [db[k] EXCEPT !.status = "processing"]
                            ELSE db[k]
             /\ IF marked = {}
                THEN eventDispatchThreads' = eventDispatchThreads
                ELSE /\ Len(eventDispatchThreads') = Len(eventDispatchThreads) + 1
                     /\ LET w == eventDispatchThreads'[Len(eventDispatchThreads')]
                        IN  /\ Range(w.event_ids) = marked
                            /\ Len(w.event_ids) = Cardinality(marked)]_vars

\* C11 witness: one batch of exactly N events is with the sink, all of them
\* processing, while a further event is still pending.
C11_Witness ==
    /\ Len(eventDispatchThreads) = 1
    /\ eventDispatchThreads[1].state = "running"
    /\ Len(eventDispatchThreads[1].event_ids) = N
    /\ Range(eventDispatchThreads[1].event_ids) = ProcessingIds(db)
    /\ Cardinality(ProcessingIds(db)) = N
    /\ PendingIds(db) # {}

\* C12: while the dispatcher keeps running, a tick that finds the time
\* trigger reached (T seconds since the last dispatch) and fewer than N events
\* pending goes on to fetch, that fetch takes all of them into one batch, and
\* whenever events are pending the dispatcher eventually gets to a fetch: no
\* event stays pending forever.
C12_TimeTrigger ==
    /\ [][(running /\ pc = "check" /\ running' /\ pc' # "check"
             /\ elapsed >= T) => pc' = "fetch"]_vars
    /\ [][(FetchStep /\ Cardinality(PendingIds(db)) < N)
             => PendingIds(db') = {} /\ ProcessingIds(db') = ProcessingIds(db) \cup PendingIds(db)]_vars
    /\ (PendingIds(db) # {}) ~> (pc = "fetch")

\* C12 witness: three events, fewer than N, were fetched by the time trigger
\* as one batch that is now with the sink.
C12_Witness ==
    /\ Len(eventDispatchThreads) = 1
    /\ eventDispatchThreads[1].state = "running"
    /\ Len(eventDispatchThreads[1].event_ids) = 3
    /\ ProcessingIds(db) = Range(eventDispatchThreads[1].event_ids)
    /\ PendingIds(db) = {}
    /\ current_time >= T

\* A sink worker ends with the sink's refusal of its batch.
SinkFailStep == lastSink' # lastSink /\ lastSink'.outcome = "failed"

\* The first trigger test after a refused batch.
TickAfterFailure ==
    /\ running /\ pc = "check" /\ running' /\ pc' # "check"
    /\ lastSink.outcome = "failed"

\* The refused batch is in the hands of a running sink worker again.
Rebatched ==
    \E i \in DOMAIN eventDispatchThreads :
        /\ eventDispatchThreads[i].state = "running"
        /\ lastSink.ids \subseteq Range(eventDispatchThreads[i].event_ids)

AttemptEnds == authPc = "authenticating" /\ authPc' = "wait"

C15_AuthenticateOutcome ==
    [][AttemptEnds =>
         IF authResult' = "ok"
         THEN /\ m_token' # NoToken
              /\ m_tokenExpTimeInSeconds' = m_token'.exp
         ELSE /\ authResult' = "unauthorized"
              /\ m_token' = NoToken
              /\ m_tokenExpTimeInSeconds' = 1]_vars

(***************************************************************************)
(* Claims about the batching adapter's body.                               *)
(***************************************************************************)
\* Reading a body back: its lines, and the strings of a JSON array.
NewLines(text) == {i \in DOMAIN text : text[i] = "\n"}
LineOf(text, k) ==
    LET nl == NewLines(text)
        first == CHOOSE i \in nl : \A j \in nl : i <= j
        second == CHOOSE i \in nl \ {first} : \A j \in nl \ {first} : i <= j
    IN  IF k = 1 THEN SubSeq(text, 1, first - 1)
        ELSE IF k = 2 THEN SubSeq(text, first + 1, second - 1)
        ELSE SubSeq(text, second + 1, Len(text))

RECURSIVE ParseJsonStrings(_, _, _, _, _)
ParseJsonStrings(text, i, inString, cur, acc) ==
    IF i > Len(text) THEN acc
    ELSE IF inString
    THEN IF text[i] = "\\"
         THEN ParseJsonStrings(text, i + 2, TRUE, Append(cur, text[i + 1]), acc)
         ELSE IF text[i] = "\""
         THEN ParseJsonStrings(text, i + 1, FALSE, <<>>, Append(acc, cur))
         ELSE ParseJsonStrings(text, i + 1, TRUE, Append(cur, text[i]), acc)
    ELSE IF text[i] = "\""
    THEN ParseJsonStrings(text, i + 1, TRUE, <<>>, acc)
    ELSE ParseJsonStrings(text, i + 1, FALSE, cur, acc)

ParseJsonArray(text) == ParseJsonStrings(SubSeq(text, 2, Len(text) - 1), 1, FALSE, <<>>, <<>>)

\* C16: the body has exactly three lines: the global metadata (empty
\* without a provider), the metadata of the first drained message, and a
\* JSON array whose strings are the data of the drained messages in drain
\* order.
C16_Frame ==
    output # <<>> =>
        /\ Cardinality(NewLines(output)) = 2
        /\ LineOf(output, 1) = IF getMetadataInfo.has THEN getMetadataInfo.value ELSE <<>>
        /\ LineOf(output, 2) = messages[1].metaData
        /\ Head(LineOf(output, 3)) = "[" /\ output[Len(output)] = "]"
        /\ ParseJsonArray(LineOf(output, 3)) = [i \in DOMAIN messages |-> messages[i].data]

\* The body of two messages without a provider; the first one's data holds
\* a quote.
C16_Witness ==
    /\ output # <<>>
    /\ ~getMetadataInfo.has
    /\ Len(messages) = 2
    /\ messages[1].data = <<"\"">>
    /\ messages[1].metaData # messages[2].metaData
    /\ output[1] = "\n"

(***************************************************************************)
(* Claims about the command lane.                                          *)
(***************************************************************************)
\* A 200 answer has been read from /commands: onSuccess(response) runs.
PushCommandsStep ==
    ppc["COMMANDS"] = "read" /\ ppc'["COMMANDS"] = "sleep" /\ res'["COMMANDS"] = 200

\* The messages a step has added at the end of the COMMAND lane.
Enqueued ==
    SubSeq(queue'["COMMAND"], Len(queue["COMMAND"]) + 1, Len(queue'["COMMAND"]))

\* C17: PushCommandsToQueue enqueues one COMMAND message per element of
\* the commands array, in array order, with one call of push; for an empty
\* array it calls push not at all and enqueues nothing.
C17_PushCommands ==
    [][IF PushCommandsStep
       THEN /\ SubSeq(queue'["COMMAND"], 1, Len(queue["COMMAND"])) = queue["COMMAND"]
            /\ \A k \in Kinds \ {"COMMAND"} : queue'[k] = queue[k]
            /\ Len(Enqueued) = Len(commands')
            /\ \A i \in DOMAIN commands' : Enqueued[i].data = commands'[i]
            /\ IF commands' = <<>>
               THEN pushes' = pushes /\ queue' = queue
               ELSE /\ Len(pushes') = Len(pushes) + 1
                    /\ SubSeq(pushes', 1, Len(pushes)) = pushes
                    /\ pushes'[Len(pushes')] = Enqueued
       ELSE pushes' = pushes /\ queue' = queue]_vars

\* The response of the test: command_1 and command_2 went to the lane in
\* that order with one push.
C17_Witness ==
    /\ commands = <<"command_1", "command_2">>
    /\ Len(pushes) = 1
    /\ Len(queue["COMMAND"]) = 2
    /\ pushes[1] = queue["COMMAND"]
    /\ queue["COMMAND"][1].data = "command_1"
    /\ queue["COMMAND"][2].data = "command_2"

(***************************************************************************)
(* Claims about the statuses of stored events.                             *)
(***************************************************************************)
\* The status changes of the DAG pending -> processing -> (dispatched | pending).
AllowedStatusChanges ==
    {<<"pending", "processing">>, <<"processing", "dispatched">>,
     <<"processing", "pending">>}

\* C18: every status change of a stored event is pending -> processing,
\* processing -> dispatched or processing -> pending.
C18_StatusDag ==
    [][\A k \in DOMAIN db \cap DOMAIN db' :
          db'[k].status # db[k].status =>
              <<db[k].status, db'[k].status>> \in AllowedStatusChanges]_vars

\* The same for the SQLite store alone.
C18_StatusDag_Sqlite ==
    [][backend = "sqlite" =>
         \A k \in DOMAIN db \cap DOMAIN db' :
             db'[k].status # db[k].status =>
                 <<db[k].status, db'[k].status>> \in AllowedStatusChanges]_vars

\* The sink workers that have not ended.
Outstanding ==
    {i \in DOMAIN eventDispatchThreads : eventDispatchThreads[i].state = "running"}

\* C19: while the dispatcher runs, at most N events are processing: at most
\* one sink worker is outstanding, and none is when the trigger is tested or
\* a batch is fetched.
C19_AtMostNInFlight ==
    running =>
        /\ Cardinality(ProcessingIds(db)) <= N
        /\ Cardinality(Outstanding) <= 1
        /\ pc \in {"check", "sleep", "fetch"} => eventDispatchThreads = <<>>

\* N events are processing in the hands of one worker, more events are
\* pending, and the dispatcher waits at the join.
C19_Witness ==
    /\ running
    /\ pc = "reap"
    /\ Cardinality(ProcessingIds(db)) = N
    /\ Cardinality(Outstanding) = 1
    /\ Cardinality(PendingIds(db)) >= 2

(***************************************************************************)
(* Claims about the requests.                                              *)
(***************************************************************************)
\* The values of the request's fields of one name.
FieldValues(r, name) ==
    {r.fields[i].value : i \in {j \in DOMAIN r.fields : r.fields[j].name = name}}

\* C20: a request built from a non-empty token carries Authorization:
\* Bearer <token>, also when a Basic value is given; the Basic header is
\* used only when the token is empty.
C20_BearerOverBasic ==
    req # NoRequest =>
        /\ params.Token # "" =>
             FieldValues(req, "authorization") = {<<"Bearer ", params.Token>>}
        /\ <<"Basic ", params.User_pass>> \in FieldValues(req, "authorization") =>
             params.Token = ""

\* C21: PerformHttpRequest never throws: a failed resolve, connect, write
\* or read gives a response with status 500 and the error text; so
\* AuthenticateWithUuidAndKey returns a token only for a 200 answer whose
\* body parses and has a token field, and nullopt otherwise.
C21_RequestIsTotal ==
    /\ perfRes # NoResponse =>
         /\ perfRes.returned /\ ~perfRes.thrown
         /\ fault # "none" =>
              /\ perfRes.status = 500
              /\ perfRes.text = <<"Internal server error: ", fault>>
         /\ fault = "none" => perfRes.status = reply.status /\ perfRes.body = reply.body
    /\ authRet # NoReturn =>
         /\ authRet.returned /\ ~authRet.thrown
         /\ authRet.has =>
              /\ fault = "none" /\ reply.status = 200
              /\ reply.body.parses /\ reply.body.hasToken
              /\ authRet.value = reply.body.token
         /\ (fault = "none" /\ reply.status = 200 /\ reply.body.parses
                /\ reply.body.hasToken /\ reply.body.isString) => authRet.has

\* The read failed on an answer that was a 200 with a token: the response
\* is the 500 one and the authentication returned nullopt.
C21_Witness ==
    /\ fault = "read"
    /\ reply.status = 200 /\ reply.body.hasToken /\ reply.body.isString
    /\ perfRes.status = 500
    /\ authRet.returned /\ ~authRet.has

(***************************************************************************)
(* Claims about delivery after failures.                                   *)
(***************************************************************************)
\* A loop iteration against a reachable manager: connect and write succeed
\* and the answer is a 200.
HealthyStep(p) ==
    \/ StartTask(p)
    \/ Connect(p, TRUE)
    \/ RetryElapsed(p)
    \/ GetMessages(p)
    \/ Write(p, TRUE)
    \/ ReadResponse(p, 200, <<>>)
    \/ SleepElapsed(p)

LoopStep(p) ==
    \/ reachable /\ HealthyStep(p)
    \/ ~reachable /\ PipelineStep(p, {<<>>})

\* The period of failures ends.
BecomeReachable ==
    /\ ~reachable
    /\ reachable' = TRUE
    /\ UNCHANGED <<qvars, fvars, avars, tvars, mvars, cvars, hvars, svars, delivered, wvars>>

\* The two data loops and their modules; nobody calls Stop.  The executor
\* runs every coroutine that is ready (weak fairness of each loop).
NextHeal ==
    \/ \E kind \in {"STATEFUL", "STATELESS"}, size \in MsgSizes : ModulePush(kind, size)
    \/ \E p \in {"STATEFUL", "STATELESS"} : LoopStep(p)
    \/ BecomeReachable
SpecHeal ==
    /\ InitAgent
    /\ [][NextHeal]_vars
    /\ WF_vars(LoopStep("STATEFUL"))
    /\ WF_vars(LoopStep("STATELESS"))

\* The ids of the messages in the two data lanes.
InLanes ==
    {queue[k][i].id : k \in {"STATEFUL"}, i \in DOMAIN queue["STATEFUL"]}
        \cup {queue[k][i].id : k \in {"STATELESS"}, i \in DOMAIN queue["STATELESS"]}

\* C22: no data loop ends on its own; a message leaves its lane only when
\* it has been sent in a request answered 200; once the manager is
\* reachable every queued message is in the end sent in such a request and
\* removed.
C22_SelfHealing ==
    /\ [](\A p \in {"STATEFUL", "STATELESS"} : ppc[p] # "done")
    /\ [][InLanes \ InLanes' \subseteq delivered']_vars
    /\ \A m \in 1 .. MaxMsgs :
          (reachable /\ m \in InLanes) ~> (m \in delivered /\ m \notin InLanes)


(***************************************************************************)
(* Claims about the tasks Agent::Run starts and about shutdown.            *)
(***************************************************************************)
\* Lines 129-141 of communicator.cpp without the clock: a wait of finite
\* length ends.
TimerElapses ==
    /\ authPc = "wait"
    /\ authPc' = "loop"
    /\ timerAborted' = FALSE
    /\ UNCHANGED <<now, m_token, m_tokenExpTimeInSeconds, m_tokenExpTimer,
                   timerDeadline, authResult, hasSucceeded, m_reAuthMutex,
                   m_isReAuthenticating, rpc, blockedBy, acted>>
    /\ UNCHANGED <<qvars, fvars, avars, uvars>>

TokenLoopStep ==
    \/ StartTokenLoop
    \/ AuthBegin
    \/ \E answer \in AuthAnswers : AuthReply(answer)
    \/ TimerElapses

\* The command-processing task over a COMMAND lane that stays empty.
CommandLoopStep ==
    \/ StartCommandTask
    \/ GetCommand
    \/ CommandWaitElapsed

\* Every task Agent::Run enqueues (agent.cpp lines 58-98) and the stop of
\* line 102; no module pushes a message, so the data lanes stay empty.  The
\* executor runs every task that is ready (weak fairness of each task).
InitShutdown == IdleQ /\ batch = <<>> /\ IdleA /\ IdleT /\ IdleU
NextShutdown ==
    \/ TokenLoopStep
    \/ \E p \in Pipelines : PipelineStep(p, {<<>>})
    \/ CommandLoopStep
    \/ Stop
SpecShutdown ==
    /\ InitShutdown
    /\ [][NextShutdown]_vars
    /\ WF_vars(TokenLoopStep)
    /\ \A p \in Pipelines : WF_vars(PipelineStep(p, {<<>>}))
    /\ WF_vars(CommandLoopStep)

\* C23: after Communicator::Stop every task Agent::Run started finishes:
\* the token loop, the three request loops and the command-processing task.
C23_ShutdownTerminates ==
    (~m_keepRunning) ~>
        (/\ authPc = "done"
         /\ \A p \in Pipelines : ppc[p] = "done"
         /\ cpc = "done")


\* The command-poll loop fills the COMMAND lane and the command-processing
\* task reads it.
NextCommandTask ==
    \/ PipelineStep("COMMANDS", CommandArrays)
    \/ CommandTaskStep
SpecCommandTask == InitCommands /\ [][NextCommandTask]_vars

\* The ids of the messages in the COMMAND lane.
InCommandLane == {queue["COMMAND"][i].id : i \in DOMAIN queue["COMMAND"]}

\* C24: a queued command is passed to the dispatch function at most once,
\* and a command that was dispatched is no longer in the lane.
C24_ConsumedExactlyOnce ==
    /\ \A i, j \in DOMAIN dispatched : dispatched[i] = dispatched[j] => i = j
    /\ \A i \in DOMAIN dispatched : dispatched[i] \notin InCommandLane


(***************************************************************************)
(* Claims about SignalDispatcher.                                          *)
(***************************************************************************)
\* Any sequence of RegisterListener and Notify calls.
InitSignals == IdleQ /\ batch = <<>> /\ IdleA /\ IdleT /\ IdleU
NextSignals ==
    \/ \E e \in Events : RegisterListener(e)
    \/ \E e \in NotifyEvents : Notify(e)
SpecSignals == InitSignals /\ [][NextSignals]_vars

\* A call of Notify(e): no listener is registered by the step.
NotifyStep(e) == notified' = e /\ registered' = registered

\* C25: Notify(e) runs the listeners registered for e and no other, each
\* once, in the order of their registration; with no listener for e it runs
\* nothing.
C25_NotifyRunsListeners ==
    [][\A e \in NotifyEvents :
          NotifyStep(e) =>
              /\ \A k \in DOMAIN invoked' :
                    invoked'[k] \in DOMAIN registered /\ registered[invoked'[k]] = e
              /\ \A i \in DOMAIN registered :
                    registered[i] = e =>
                        Cardinality({k \in DOMAIN invoked' : invoked'[k] = i}) = 1
              /\ \A k1, k2 \in DOMAIN invoked' :
                    k1 < k2 => invoked'[k1] < invoked'[k2]]_vars

\* Two listeners of one event and one of another are registered and the
\* first event has been notified.
C25_Witness ==
    /\ notified = "shared_event"
    /\ Len(invoked) = 2
    /\ \E i \in DOMAIN registered : registered[i] = "test_event"


(***************************************************************************)
(* Claims about GetCommandFromQueue.                                       *)
(***************************************************************************)
\* The call GetCommand() of the command-processing task.
GetCommandStep == cpc = "get" /\ cpc' # "get"

\* C26: GetCommandFromQueue returns nothing exactly when the COMMAND lane is
\* empty, and then makes no getNext call; otherwise it returns the oldest
\* message of the lane parsed into id, module, command and parameters, with
\* status IN_PROGRESS; the lane is left as it was.
C26_GetCommandFromQueue ==
    [][GetCommandStep =>
          LET lane == queue["COMMAND"] IN
          /\ cmd'.has <=> lane # <<>>
          /\ lane = <<>> => getNextCalls' = 0 /\ cmd' = NoCommand
          /\ lane # <<>> =>
                LET j == CommandJson(lane[1].data) IN
                /\ getNextCalls' = 1
                /\ cmd'.Id = j.id
                /\ cmd'.Module = j.args[1]
                /\ cmd'.Command = j.args[2]
                /\ cmd'.Parameters = [i \in 1 .. Len(j.args) - 2 |-> j.args[i + 2]]
                /\ cmd'.ErrorCode = "IN_PROGRESS"
          /\ queue' = queue]_vars

\* The lane holds two different commands and the older one, the command of
\* the tests, was returned.
C26_Witness ==
    /\ cpc = "dispatch"
    /\ Len(queue["COMMAND"]) = 2
    /\ queue["COMMAND"][1].data = "command_1"
    /\ queue["COMMAND"][2].data = "command_2"
    /\ cmd.Id = "112233"
    /\ cmd.Parameters = <<"parameters_test">>


(***************************************************************************)
(* Claims about the unauthorized answers and the token timer.              *)
(***************************************************************************)
\* A request loop reads a 401 or a 403 answer.
UnauthorizedStep(p) ==
    /\ ppc[p] = "read"
    /\ ppc'[p] = "sleep"
    /\ res'[p] \in {401, 403}

\* C27: when a request loop reads a 401 or a 403 answer while the token
\* loop sleeps, TryReAuthenticate is called: a caller is in the function or
\* the pending wait of the token timer has been cancelled.
C27_UnauthorizedRecovery ==
    [][\A p \in Pipelines :
          (UnauthorizedStep(p) /\ authPc = "wait") =>
              (timerAborted' \/ \E c \in Callers : rpc'[c] # "idle")]_vars


\* TryReAuthenticate calls cancel() on the timer (lines 190-193).
CancelStep(c) == rpc[c] = "cancel" /\ rpc'[c] = "clear" /\ m_tokenExpTimer

\* C28: a cancellation is never lost and never ends the token loop: after
\* a cancel() made while the loop sleeps or is in an authentication attempt,
\* the wait the loop is in, or the wait it starts after the attempt, is
\* aborted.
C28_CancellationNeverLost ==
    /\ [](authPc # "done")
    /\ [][\A c \in Callers :
             (CancelStep(c) /\ authPc \in {"wait", "authenticating"}) => timerAborted']_vars
    /\ [][(timerAborted /\ authPc' = "wait") => timerAborted']_vars


(***************************************************************************)
(* Claims about one iteration of the request loop.                         *)
(***************************************************************************)
\* C29: when a response has been read exactly one branch has run.  200:
\* onSuccess once, with the body of the response, onUnauthorized not, and
\* the wait is batchingInterval; 401 or 403: onUnauthorized once, onSuccess
\* not, and the wait is connectionRetry; any other status: no callback and
\* the wait is batchingInterval.  Before a response is read no callback has
\* run.
C29_StatusDispatch ==
    \A p \in Pipelines :
        /\ ppc[p] = "sleep" =>
              /\ res[p] = 200 =>
                    /\ called[p].onSuccess = 1
                    /\ called[p].arg = called[p].body
                    /\ called[p].onUnauthorized = 0
                    /\ timerSleep[p] = "batchingInterval"
              /\ res[p] \in {401, 403} =>
                    /\ called[p].onUnauthorized = 1
                    /\ called[p].onSuccess = 0
                    /\ timerSleep[p] = "connectionRetry"
              /\ res[p] \notin {200, 401, 403} =>
                    /\ called[p].onUnauthorized = 0
                    /\ called[p].onSuccess = 0
                    /\ timerSleep[p] = "batchingInterval"
        /\ ppc[p] \in {"connect", "retry", "getmsg", "write", "read"} =>
              called[p].onSuccess = 0 /\ called[p].onUnauthorized = 0

\* A 403 was read after an earlier answer had brought commands.
C29_Witness ==
    /\ ppc["COMMANDS"] = "sleep"
    /\ res["COMMANDS"] = 403
    /\ called["COMMANDS"].onUnauthorized = 1
    /\ pushes # <<>>

\* C30: after a failed connect the socket is closed, the iteration has not
\* called the body producer, has written nothing and has called no
\* callback, and it waits connectionRetry; the step leaves the queue as it
\* was, during the wait the loop's lane loses no message, and the wait is
\* left only for the next attempt or the end of the loop.
C30_ConnectFailure ==
    /\ [](\A p \in DataPipelines :
             called[p].connectError =>
                 /\ ppc[p] \in {"retry", "done"}
                 /\ called[p].closed
                 /\ called[p].messageGetter = 0
                 /\ called[p].written = 0
                 /\ called[p].onSuccess = 0
                 /\ called[p].onUnauthorized = 0
                 /\ res[p] = 0)
    /\ [][\A p \in DataPipelines :
             /\ (called'[p].connectError /\ ~called[p].connectError) => queue' = queue
             /\ ppc[p] = "retry" =>
                   /\ ppc'[p] \in {"retry", "connect", "done"}
                   /\ Len(queue'[p]) >= Len(queue[p])
                   /\ SubSeq(queue'[p], 1, Len(queue[p])) = queue[p]]_vars

\* The connect of the stateful loop failed while a message was queued.
C30_Witness ==
    /\ ppc["STATEFUL"] = "retry"
    /\ called["STATEFUL"].connectError
    /\ queue["STATEFUL"] # <<>>


\* The write of the request fails, or its read does (no response is read).
WriteFailStep(p) == ppc[p] = "write" /\ ppc'[p] \notin {"write", "read"}
ReadFailStep(p) == ppc[p] = "read" /\ ppc'[p] # "read" /\ res'[p] = 0

\* C31: when the write or the read fails the socket is closed, no callback
\* is called and nothing is popped or delivered, the loop goes to its next
\* attempt (or ends) without any wait, and the messages of the body are
\* still the first ones of the lane.
C31_WriteReadFailure ==
    [][\A p \in DataPipelines :
          (WriteFailStep(p) \/ ReadFailStep(p)) =>
              /\ called'[p].closed
              /\ called'[p].onSuccess = 0
              /\ called'[p].onUnauthorized = 0
              /\ lastPop'[p] = NoPop
              /\ queue' = queue
              /\ delivered' = delivered
              /\ ppc'[p] \in {"connect", "done"}
              /\ Len(reqBody[p].msgs) <= Len(queue'[p])
              /\ \A i \in DOMAIN reqBody[p].msgs : reqBody[p].msgs[i] = queue'[p][i]]_vars

\* The read of the stateful request failed while its body held a message:
\* the next attempt has begun and the message is still queued.
C31_Witness ==
    /\ ppc["STATEFUL"] = "connect"
    /\ called["STATEFUL"].closed
    /\ reqBody["STATEFUL"].msgs # <<>>
    /\ queue["STATEFUL"] # <<>>


\* C32: once the stop condition is false a request loop begins no
\* iteration: no step takes a loop to its connect when m_keepRunning is
\* false, also not the start of the task.
C32_StopCheckedAtTop ==
    [][\A p \in Pipelines :
          (~m_keepRunning /\ ppc[p] # "connect") => ppc'[p] # "connect"]_vars


(***************************************************************************)
(* Claims about the shared token.                                          *)
(***************************************************************************)
\* A request loop creates its request (the body has been produced).
CreateRequestStep(p) == ppc[p] = "getmsg" /\ ppc'[p] = "write"

\* C33: every request carries the value the shared token holds when the
\* request is created, so a request created after the token was replaced
\* carries the new one; the token changes only in a step of the token
\* loop's authentication, never in a step of a request loop.
C33_TokenRotationVisible ==
    /\ [][\A p \in Pipelines : CreateRequestStep(p) => reqToken'[p] = m_token']_vars
    /\ [][m_token' # m_token =>
             /\ authPc = "authenticating"
             /\ ppc' = ppc]_vars

\* The command loop has created a request after the token was replaced:
\* the request carries the new token, its previous request carried another.
C33_Witness ==
    /\ ppc["COMMANDS"] = "write"
    /\ called["COMMANDS"].rotated
    /\ m_token.has
    /\ reqToken["COMMANDS"] = m_token


(***************************************************************************)
(* Claims about the dispatcher tick and the sink workers.                  *)
(***************************************************************************)
\* A step of the dispatcher thread from position at.
DispatcherAt(at) == running /\ running' /\ pc = at /\ pc' # at

\* C34: fetchAndMarkPendingEvents is called only in a tick whose trigger
\* test found N pending events or T seconds since the last dispatch; a tick
\* that finds neither goes to its one-second sleep and then to the next
\* tick, and none of its steps changes the status of an event.
C34_BatchTrigger ==
    [][/\ DispatcherAt("fetch") =>
             (getPendingEventCount(db) >= N \/ current_time >= T)
       /\ (DispatcherAt("check") /\ getPendingEventCount(db) < N /\ elapsed < T) =>
             pc' = "sleep"
       /\ DispatcherAt("sleep") =>
             (pc' = "gc" /\ elapsed' = MinOf(elapsed + 1, T))
       /\ (\E at \in {"gc", "reap", "check", "sleep"} : DispatcherAt(at)) =>
             \A k \in DOMAIN db' : k \in DOMAIN db /\ db'[k].status = db[k].status]_vars

\* The dispatcher sleeps while pending events, fewer than N, wait and the
\* T seconds have not passed.
C34_Witness ==
    /\ running
    /\ pc = "sleep"
    /\ getPendingEventCount(db) > 0
    /\ getPendingEventCount(db) < N
    /\ current_time < T


\* The events a fetch step marks: pending before it, processing after it.
MarkedByStep ==
    {k \in DOMAIN db : k \in DOMAIN db' /\ db[k].status = "pending"
                                        /\ db'[k].status = "processing"}

JoinedPayloads(events) ==
    [i \in 1 .. 2 * Len(events) - 1 |->
        IF i % 2 = 1 THEN events[(i + 1) \div 2].event_data ELSE "\n"]

\* The fetch step started a worker.
SpawnStep ==
    /\ DispatcherAt("fetch")
    /\ Len(eventDispatchThreads') > Len(eventDispatchThreads)

\* C36: the string handed to the sink is the payloads of the batch's events,
\* in batch order, separated by "\n", with no "\n" after the last payload.
C36_SinkPayloadFormat ==
    [][SpawnStep =>
         eventDispatchThreads'[Len(eventDispatchThreads')].event_data
           = JoinedPayloads(fetchAndMarkPendingEvents_events(db, N))]_vars

\* What the code builds: every payload, the last one too, is followed by "\n".
C36_PayloadsNewlineTerminated ==
    [][SpawnStep =>
         LET pending_events == fetchAndMarkPendingEvents_events(db, N)
             data == eventDispatchThreads'[Len(eventDispatchThreads')].event_data
         IN  /\ Len(data) = 2 * Len(pending_events)
             /\ SubSeq(data, 1, Len(data) - 1) = JoinedPayloads(pending_events)
             /\ data[Len(data)] = "\n"]_vars


\* C37: the destructor completes only when every worker has finished and been
\* joined; no worker is started once the destructor's loop over the workers
\* has ended; the dispatcher does not erase from or emplace into the worker
\* vector while the destructor's loop is on it.
C37_DispatcherShutdown ==
    [][/\ dtor' = "done" =>
            \A i \in DOMAIN eventDispatchThreads' :
               eventDispatchThreads'[i].state = "joined"
       /\ dtor \in {"joinDispatcher", "done", "terminated"} => ~SpawnStep
       /\ (dtor = "joinWorkers" /\ running') =>
            ThreadIds(eventDispatchThreads') = ThreadIds(eventDispatchThreads)]_vars

\* The three parts of C37, one by one.
C37_CompletesJoined ==
    dtor = "done" =>
       \A i \in DOMAIN eventDispatchThreads : eventDispatchThreads[i].state = "joined"
C37_NoSpawnAfterJoin ==
    [][(dtor \in {"joinDispatcher", "done", "terminated"}) => (~SpawnStep)]_vars
C37_NoConcurrentAccess ==
    [][(dtor = "joinWorkers" /\ running') =>
         ThreadIds(eventDispatchThreads') = ThreadIds(eventDispatchThreads)]_vars


\* C38: an updateEventStatus call changes only the events that are listed and
\* processing (to the new status); an id that is not stored is ignored
\* without an error and the other listed ids are still updated; events not
\* listed stay as they are.
C38_UpdateStatus ==
    lastUpdate.made =>
       /\ ~lastUpdate.error
       /\ DOMAIN db = DOMAIN lastUpdate.before
       /\ \A k \in DOMAIN db :
            IF k \in Range(lastUpdate.ids) /\ lastUpdate.before[k].status = "processing"
            THEN db[k] = [lastUpdate.before[k] EXCEPT !.status = "dispatched"]
            ELSE db[k] = lastUpdate.before[k]

\* The parts of C38 one by one: events not listed are unchanged; every listed
\* stored event is set, whatever its status was, unless the call failed; the
\* SQLite call never fails; the RocksDB call fails exactly when a listed id
\* is not stored.
C38_UnlistedUnchanged ==
    lastUpdate.made =>
       /\ DOMAIN db = DOMAIN lastUpdate.before
       /\ \A k \in DOMAIN db \ Range(lastUpdate.ids) : db[k] = lastUpdate.before[k]
C38_ListedAnyStatus ==
    (lastUpdate.made /\ ~lastUpdate.error) =>
       \A k \in DOMAIN db \cap Range(lastUpdate.ids) : db[k].status = "dispatched"
C38_ErrorOnUnknownId ==
    lastUpdate.made =>
       (lastUpdate.error <=>
          (backend = "rocksdb" /\ ~(Range(lastUpdate.ids) \subseteq DOMAIN db)))


AllReturned == \A c \in Callers : rpc[c] = "idle"

\* The flag is set only while a call that won the mutex is between its
\* exchange and its clearing of the flag; with no call in progress the flag
\* is clear and the mutex is free.
GuardConsistent ==
    /\ m_isReAuthenticating =>
         /\ m_reAuthMutex \in Callers
         /\ rpc[m_reAuthMutex] \in {"cancel", "clear"}
    /\ AllReturned => (~m_isReAuthenticating /\ m_reAuthMutex = 0)

\* C40: in every interleaving of TryReAuthenticate calls the flag is true only
\* while one call holds the mutex, after all calls have returned the flag is
\* false and the mutex is free, and a call made then takes the branch that
\* cancels the timer.
C40_GuardNeverStuck ==
    [][/\ GuardConsistent
       /\ GuardConsistent'
       /\ \A c \in Callers :
            (AllReturned /\ rpc'[c] # "idle") =>
               (rpc'[c] = "cancel" /\ m_reAuthMutex' = c)]_vars

\* After a call that cancelled the timer has returned, a later call is in the
\* cancelling branch again.
C40_Witness ==
    \E c \in Callers, e \in Callers :
       /\ c # e
       /\ rpc[c] = "idle" /\ acted[c]
       /\ rpc[e] = "cancel"
       /\ m_reAuthMutex = e
       /\ m_isReAuthenticating

=============================================================================
